---- MODULE Spec2Model ----
(***************************************************************************)
(* Model of wow-renovate-data: the VersionParser, the addon-versions       *)
(* pipeline (fetch-versions.js) and the game-version-id pipeline           *)
(* (fetch-game-versions.js).                                               *)
(*                                                                         *)
(* JavaScript strings that the code inspects character by character are    *)
(* sequences of one-character strings (<<"1", ".", "2">>).  JavaScript     *)
(* objects are functions whose DOMAIN is the set of properties that are    *)
(* present; a property that is absent or undefined is not in the DOMAIN    *)
(* (JSON.stringify, which both change detectors and both writers use,      *)
(* does not tell the two apart).                                           *)
(***************************************************************************)
EXTENDS Integers, Sequences, FiniteSets, TLC

VARIABLES
    origin,             \* how versionName was put together (prefix, parts, base, suffix)
    versionName,        \* argument of parseInterfaceVersion
    interfaceVersion,   \* its result
    parserPc,           \* "ready" before the call, "done" after it, "numbered"
    sortOrder,          \* the result of parseVersionToNumber(versionName)
    curseforgeVersions, \* argument of parseVersions
    parsedVersions,     \* its result, the argument of processVersionsByVariant
    versionsByVariant,  \* the result of processVersionsByVariant
    transformPc,        \* "ready", "parsed", "grouped"
    clock,              \* the wall clock, what new Date() reads
    versionsFile,       \* versions.json: missing, corrupt, or a JSON document
    addon,              \* the addon-versions process: where it is, and its locals
    upstream,           \* which answers the game versions endpoint gives: "bounded", "curated"
    gameVersionsFile,   \* game-versions.json: missing, corrupt, or a JSON document
    game,               \* the game-version-id process: where it is, and its locals
    detector,           \* a change detector applied to one pair of arguments, and its result
    rival               \* a second addon-versions process on the same versions.json

parserVars == <<origin, versionName, interfaceVersion, parserPc, sortOrder>>

transformVars == <<curseforgeVersions, parsedVersions, versionsByVariant, transformPc>>

addonVars == <<versionsFile, addon>>

gameVars == <<upstream, gameVersionsFile, game>>

\* what only the specifications of the change detectors and of overlapping
\* runs use
sideVars == <<detector, rival>>

vars == <<parserVars, transformVars, clock, addonVars, gameVars, sideVars>>

-----------------------------------------------------------------------------
(* Bounds of the model.                                                    *)

\* version components are drawn from 0..MaxComponent and TopComponent
MaxComponent == 15
TopComponent == 99

\* parseVersions is applied to at most MaxRecords records
MaxRecords == 3

\* the wall clock runs from 0 to MaxClock
MaxClock == 3

\* the game versions endpoint answers with at most MaxGameRecords records
MaxGameRecords == 3

\* a version component of three digits
WideComponent == 100

-----------------------------------------------------------------------------
(* Program constants.                                                      *)

\* milliseconds in a day
DayMs == 86400000

-----------------------------------------------------------------------------
(* Strings.                                                                *)

\* null, as a value that no string equals
NULL == <<"null">>

\* undefined, what reading an absent property gives
UNDEFINED == <<"undefined">>

\* the values that are not strings and have no properties to read
Nullish == {NULL, UNDEFINED}

\* what a call yields that throws a TypeError instead of returning
TypeError == <<"TypeError">>

Digits == {"0", "1", "2", "3", "4", "5", "6", "7", "8", "9"}
Letters == {"a", "b", "B", "v"}

IsDigit(c) == c \in Digits
IsLetter(c) == c \in Letters

DigitChar(d) ==
    CASE d = 0 -> "0" [] d = 1 -> "1" [] d = 2 -> "2" [] d = 3 -> "3"
      [] d = 4 -> "4" [] d = 5 -> "5" [] d = 6 -> "6" [] d = 7 -> "7"
      [] d = 8 -> "8" [] d = 9 -> "9"

DigitVal(c) ==
    CASE c = "0" -> 0 [] c = "1" -> 1 [] c = "2" -> 2 [] c = "3" -> 3
      [] c = "4" -> 4 [] c = "5" -> 5 [] c = "6" -> 6 [] c = "7" -> 7
      [] c = "8" -> 8 [] c = "9" -> 9

\* String(n) for an integer n: decimal, no leading zeros, '-' before a negative one
RECURSIVE ToStr(_)
ToStr(n) ==
    IF n < 0 THEN <<"-">> \o ToStr(-n)
    ELSE IF n < 10 THEN <<DigitChar(n)>>
    ELSE Append(ToStr(n \div 10), DigitChar(n % 10))

\* the value of a non-empty string of decimal digits
RECURSIVE DigitsToNum(_)
DigitsToNum(s) ==
    IF Len(s) = 0 THEN 0
    ELSE 10 * DigitsToNum(SubSeq(s, 1, Len(s) - 1)) + DigitVal(s[Len(s)])

\* "major.minor.patch"
Ver(major, minor, patch) ==
    ToStr(major) \o <<".">> \o ToStr(minor) \o <<".">> \o ToStr(patch)

-----------------------------------------------------------------------------
(* VersionParser.parseInterfaceVersion                                     *)

NoMatch == <<>>

\* index of the last character of the maximal run of digits that starts at i
RECURSIVE DigitRunEnd(_, _)
DigitRunEnd(s, i) ==
    IF i < Len(s) /\ IsDigit(s[i + 1]) THEN DigitRunEnd(s, i + 1) ELSE i

\* /(\d+)\.(\d+)\.(\d+)/ tried at start position i: the three captured groups,
\* or NoMatch.  Each \d+ is greedy; a shorter first or second group can never
\* be followed by '.', so backtracking finds nothing the greedy attempt misses.
RegexMatchAt(s, i) ==
    IF ~(i <= Len(s) /\ IsDigit(s[i])) THEN NoMatch
    ELSE LET e1 == DigitRunEnd(s, i) IN
      IF ~(e1 + 2 <= Len(s) /\ s[e1 + 1] = "." /\ IsDigit(s[e1 + 2])) THEN NoMatch
      ELSE LET e2 == DigitRunEnd(s, e1 + 2) IN
        IF ~(e2 + 2 <= Len(s) /\ s[e2 + 1] = "." /\ IsDigit(s[e2 + 2])) THEN NoMatch
        ELSE LET e3 == DigitRunEnd(s, e2 + 2) IN
          <<SubSeq(s, i, e1), SubSeq(s, e1 + 2, e2), SubSeq(s, e2 + 2, e3)>>

\* a mutant of RegexMatch: the regex anchored at both ends, /^...$/
RegexMatchAnchored(s) ==
    LET m == RegexMatchAt(s, 1) IN
    IF m # NoMatch /\ Len(m[1]) + Len(m[2]) + Len(m[3]) + 2 = Len(s)
    THEN m ELSE NoMatch

\* String.prototype.match with the unanchored, non-global regex: the match at
\* the leftmost start position that has one, or NoMatch
RegexMatch(s) ==
    LET starts == {i \in 1..Len(s) : RegexMatchAt(s, i) # NoMatch} IN
    IF starts = {} THEN NoMatch
    ELSE RegexMatchAt(s, CHOOSE i \in starts : \A j \in starts : i <= j)

\* a mutant of PadStart2: no padding
PadStartNone(s) == s

\* String.prototype.padStart(2, '0')
PadStart2(s) == IF Len(s) >= 2 THEN s ELSE <<"0">> \o s

\* a mutant of parseInterfaceVersion: the minor component is not padded
parseInterfaceVersionMinorUnpadded(name) ==
    IF name \in Nullish THEN TypeError
    ELSE LET versionMatch == RegexMatch(name) IN
         IF versionMatch = NoMatch THEN NULL
         ELSE versionMatch[1] \o versionMatch[2] \o PadStart2(versionMatch[3])

\* versionName.match(...) throws when versionName is null or undefined
parseInterfaceVersion(name) ==
    IF name \in Nullish THEN TypeError
    ELSE LET versionMatch == RegexMatch(name) IN
         IF versionMatch = NoMatch THEN NULL
         ELSE versionMatch[1] \o PadStart2(versionMatch[2]) \o PadStart2(versionMatch[3])

-----------------------------------------------------------------------------
(* VersionParser.parseVersion, parseVersions                               *)

\* the result of parseVersion when the name does not parse
NullVersion == [null |-> TRUE]

\* the property of the input record that each property of the result is read from
SourceProperty(k) ==
    CASE k = "name" -> "name"
      [] k = "variant" -> "variant"
      [] k = "gameVersionTypeId" -> "type"
      [] k = "versionTypeName" -> "versionTypeName"
      [] k = "versionTypeSlug" -> "versionTypeSlug"

CopiedProperties ==
    {"name", "variant", "gameVersionTypeId", "versionTypeName", "versionTypeSlug"}

\* the outcome of parseVersion when parseInterfaceVersion throws
ThrownVersion == [thrown |-> "TypeError"]

\* curseforgeVersion.name
NameOf(curseforgeVersion) ==
    IF "name" \in DOMAIN curseforgeVersion THEN curseforgeVersion.name ELSE UNDEFINED

parseVersion(curseforgeVersion) ==
    LET iv == parseInterfaceVersion(NameOf(curseforgeVersion)) IN
    IF iv = TypeError THEN ThrownVersion
    ELSE IF iv = NULL THEN NullVersion
    ELSE [k \in {"version"} \cup
                {c \in CopiedProperties : SourceProperty(c) \in DOMAIN curseforgeVersion} |->
            IF k = "version" THEN iv ELSE curseforgeVersion[SourceProperty(k)]]

\* Array.prototype.filter(version => version !== null)
RECURSIVE FilterNotNull(_)
FilterNotNull(s) ==
    IF s = <<>> THEN <<>>
    ELSE IF Head(s) = NullVersion THEN FilterNotNull(Tail(s))
    ELSE <<Head(s)>> \o FilterNotNull(Tail(s))

\* a mutant of parseVersions: the result is built back to front
parseVersionsReversed(versions) ==
    LET kept == FilterNotNull([i \in 1..Len(versions) |-> parseVersion(versions[i])]) IN
    [i \in 1..Len(kept) |-> kept[Len(kept) + 1 - i]]

\* the callback of map throws for one of the elements: parseVersions throws
parseVersionsThrows(versions) ==
    \E i \in 1..Len(versions) : parseVersion(versions[i]) = ThrownVersion

\* the array parseVersions returns when it returns
parseVersions(versions) ==
    FilterNotNull([i \in 1..Len(versions) |-> parseVersion(versions[i])])

-----------------------------------------------------------------------------
(* fetch-versions.js: processVersionsByVariant                             *)

\* parseInt of a string of decimal digits
ParseIntDigits(s) == DigitsToNum(s)

\* the variant a record is grouped under: acc[version.variant], where an
\* absent variant is the property name "undefined"
VariantKey(version) ==
    IF "variant" \in DOMAIN version THEN version.variant ELSE "undefined"

\* a mutant of SortDescending: the comparator's operands swapped
RECURSIVE SortAscending(_)
SortAscending(pairs) ==
    IF pairs = <<>> THEN <<>>
    ELSE LET n == Len(pairs)
             done == SortAscending(SubSeq(pairs, 1, n - 1))
             x == pairs[n]
             before == Cardinality({i \in 1..Len(done) : done[i][1] <= x[1]})
         IN  SubSeq(done, 1, before) \o <<x>> \o SubSeq(done, before + 1, Len(done))

\* a mutant of SortDescending: an unstable sort, an element is put before the
\* elements of equal key that precede it
RECURSIVE SortDescendingUnstable(_)
SortDescendingUnstable(pairs) ==
    IF pairs = <<>> THEN <<>>
    ELSE LET n == Len(pairs)
             done == SortDescendingUnstable(SubSeq(pairs, 1, n - 1))
             x == pairs[n]
             before == Cardinality({i \in 1..Len(done) : done[i][1] > x[1]})
         IN  SubSeq(done, 1, before) \o <<x>> \o SubSeq(done, before + 1, Len(done))

\* Array.prototype.sort with the comparator (a, b) => key(b) - key(a) on
\* integer keys: a stable sort, largest key first.  pairs are <<key, element>>.
RECURSIVE SortDescending(_)
SortDescending(pairs) ==
    IF pairs = <<>> THEN <<>>
    ELSE LET n == Len(pairs)
             done == SortDescending(SubSeq(pairs, 1, n - 1))
             x == pairs[n]
             before == Cardinality({i \in 1..Len(done) : done[i][1] >= x[1]})
         IN  SubSeq(done, 1, before) \o <<x>> \o SubSeq(done, before + 1, Len(done))

\* the elements of s that satisfy the variant, in the order of s
RECURSIVE OfVariant(_, _)
OfVariant(s, variant) ==
    IF s = <<>> THEN <<>>
    ELSE IF VariantKey(Head(s)) = variant
         THEN <<Head(s)>> \o OfVariant(Tail(s), variant)
         ELSE OfVariant(Tail(s), variant)

SortBucket(bucket) ==
    LET sorted == SortDescending([i \in 1..Len(bucket) |->
                                     <<ParseIntDigits(bucket[i].version), bucket[i]>>])
    IN  [i \in 1..Len(sorted) |-> sorted[i][2]]

processVersionsByVariant(parsed) ==
    LET variants == {VariantKey(parsed[i]) : i \in 1..Len(parsed)} IN
    [v \in variants |-> SortBucket(OfVariant(parsed, v))]

-----------------------------------------------------------------------------
(* curseforge-client.js: the version-type catalog and getAllWowVersions    *)

VersionTypeMap ==
    (67408 :> [id |-> 67408, name |-> "WoW Classic Era",
               slug |-> "wow-classic-era", variant |-> "classic_era"])
    @@ (73246 :> [id |-> 73246, name |-> "WoW Burning Crusade Classic",
                  slug |-> "wow-burning-crusade-classic", variant |-> "tbc_classic"])
    @@ (73713 :> [id |-> 73713, name |-> "WoW Wrath of the Lich King Classic",
                  slug |-> "wow-wrath-of-the-lich-king-classic", variant |-> "wotlk_classic"])
    @@ (77522 :> [id |-> 77522, name |-> "WoW Cataclysm Classic",
                  slug |-> "wow-cataclysm-classic", variant |-> "cata_classic"])
    @@ (79434 :> [id |-> 79434, name |-> "WoW Mists of Pandaria Classic",
                  slug |-> "wow-mists-of-pandaria-classic", variant |-> "mop_classic"])
    @@ (517 :> [id |-> 517, name |-> "WoW Retail",
                slug |-> "wow-retail", variant |-> "retail"])

getVersionTypes == VersionTypeMap

\* a mutant of GroupVersions: a group of a type that is not in the catalog
\* contributes its versions, tagged "unknown"
GroupVersionsTagUnknown(group) ==
    IF "versions" \notin DOMAIN group THEN <<>>
    ELSE IF "type" \notin DOMAIN group \/ group.type \notin DOMAIN VersionTypeMap
    THEN [i \in 1..Len(group.versions) |->
            [name |-> group.versions[i], variant |-> "unknown"]]
    ELSE LET versionType == VersionTypeMap[group.type] IN
         [i \in 1..Len(group.versions) |->
            [name |-> group.versions[i],
             type |-> group.type,
             variant |-> versionType.variant,
             versionTypeName |-> versionType.name,
             versionTypeSlug |-> versionType.slug]]

\* the records one version group contributes: none when it has no versions
\* array or its type is not in the catalog
GroupVersions(group) ==
    IF "versions" \notin DOMAIN group THEN <<>>
    ELSE IF "type" \notin DOMAIN group \/ group.type \notin DOMAIN VersionTypeMap THEN <<>>
    ELSE LET versionType == VersionTypeMap[group.type] IN
         [i \in 1..Len(group.versions) |->
            [name |-> group.versions[i],
             type |-> group.type,
             variant |-> versionType.variant,
             versionTypeName |-> versionType.name,
             versionTypeSlug |-> versionType.slug]]

RECURSIVE getAllWowVersions(_)
getAllWowVersions(versionGroups) ==
    IF versionGroups = <<>> THEN <<>>
    ELSE GroupVersions(Head(versionGroups)) \o getAllWowVersions(Tail(versionGroups))

-----------------------------------------------------------------------------
(* fetch-versions.js: reading, change detection, the output document       *)

\* what a read yields when there is no readable document (null)
NoData == [null |-> TRUE]

\* a file that does not exist, and one whose content is not JSON
MissingFile == [state |-> "missing"]
CorruptFile == [state |-> "corrupt"]

\* fs.writeFile(path, JSON.stringify(document)): the file then parses to document
JsonFile(document) == [state |-> "json", data |-> document]

\* a mutant of readExistingVersions: the document is never found
readExistingVersionsNever(file) == NoData

\* readFile + JSON.parse, null when either throws
readExistingVersions(file) ==
    IF file.state = "json" THEN file.data ELSE NoData

\* the order in which parseVersion creates the properties of a version, which
\* is the order JSON.stringify writes them in and JSON.parse reads them back
VersionPropertyOrder ==
    <<"version", "name", "variant", "gameVersionTypeId", "versionTypeName", "versionTypeSlug">>

RECURSIVE StringifyProperties(_, _)
StringifyProperties(object, order) ==
    IF order = <<>> THEN <<>>
    ELSE IF Head(order) \in DOMAIN object
         THEN <<<<Head(order), object[Head(order)]>>>> \o StringifyProperties(object, Tail(order))
         ELSE StringifyProperties(object, Tail(order))

\* JSON.stringify of a versions array: the properties that are present, in
\* order, for each element in order; undefined for an absent array
JsonStringifyVersions(document) ==
    IF "versions" \notin DOMAIN document THEN <<"undefined">>
    ELSE [i \in 1..Len(document.versions) |->
            StringifyProperties(document.versions[i], VersionPropertyOrder)]

\* a mutant of hasVersionsChanged: the versions are compared as sets
hasVersionsChangedUnordered(oldData, newData) ==
    IF oldData = NoData THEN TRUE
    ELSE IF "versions" \notin DOMAIN oldData \/ "versions" \notin DOMAIN newData
    THEN ("versions" \in DOMAIN oldData) # ("versions" \in DOMAIN newData)
    ELSE LET old == JsonStringifyVersions(oldData)
             new == JsonStringifyVersions(newData)
         IN  {old[i] : i \in 1..Len(old)} # {new[i] : i \in 1..Len(new)}

\* a mutant of hasVersionsChanged: every run counts as a change
hasVersionsChangedAlways(oldData, newData) == TRUE

\* JSON.stringify(undefined) is undefined, which is !== to every string
hasVersionsChanged(oldData, newData) ==
    IF oldData = NoData THEN TRUE
    ELSE IF "versions" \notin DOMAIN oldData \/ "versions" \notin DOMAIN newData
    THEN ("versions" \in DOMAIN oldData) # ("versions" \in DOMAIN newData)
    ELSE JsonStringifyVersions(oldData) # JsonStringifyVersions(newData)

SummaryVariants ==
    {"classic_era", "tbc_classic", "wotlk_classic", "cata_classic", "mop_classic", "retail"}

\* now is what new Date() reads when the object is created
\* a mutant of createOutputObject: the versions array is the one the sort
\* has worked on
createOutputObjectSortedVersions(parsed, byVariant, versionTypes, now) ==
    [lastUpdated |-> now,
     versions |-> SortBucket(parsed),
     versionsByVariant |-> byVariant,
     versionTypes |-> versionTypes,
     summary |-> [v \in SummaryVariants |->
                    IF v \in DOMAIN byVariant THEN Len(byVariant[v]) ELSE 0]]

createOutputObject(parsed, byVariant, versionTypes, now) ==
    [lastUpdated |-> now,
     versions |-> parsed,
     versionsByVariant |-> byVariant,
     versionTypes |-> versionTypes,
     summary |-> [v \in SummaryVariants |->
                    IF v \in DOMAIN byVariant THEN Len(byVariant[v]) ELSE 0]]

\* a mutant of KeepTimestampIfUnchanged: the fresh timestamp always stays
KeepTimestampNever(existingData, output) == output

\* "Only update lastUpdated if versions have actually changed"
KeepTimestampIfUnchanged(existingData, output) ==
    IF existingData # NoData /\ ~hasVersionsChanged(existingData, output)
    THEN [output EXCEPT !.lastUpdated = existingData.lastUpdated]
    ELSE output

-----------------------------------------------------------------------------
(* VersionParser.parseVersionToNumber                                      *)

\* a JavaScript number: an integer, or NaN
Number(n) == [nan |-> FALSE, val |-> n]
NaN == [nan |-> TRUE, val |-> 0]

\* no number yet: the function has not been called
NotComputed == [called |-> FALSE]

\* String.prototype.split('.')
RECURSIVE SplitOnDot(_)
SplitOnDot(s) ==
    LET dots == {i \in 1..Len(s) : s[i] = "."} IN
    IF dots = {} THEN <<s>>
    ELSE LET first == CHOOSE i \in dots : \A j \in dots : i <= j IN
         <<SubSeq(s, 1, first - 1)>> \o SplitOnDot(SubSeq(s, first + 1, Len(s)))

\* a mutant of PartOrZero: no default, an absent part is read as ''
PartOrEmpty(parts, k) ==
    IF k + 1 <= Len(parts) THEN parts[k + 1] ELSE <<>>

\* parts[k] || '0', k counted from 0
PartOrZero(parts, k) ==
    IF k + 1 <= Len(parts) /\ parts[k + 1] # <<>> THEN parts[k + 1] ELSE <<"0">>

RECURSIVE TrimStart(_)
TrimStart(s) == IF s # <<>> /\ Head(s) = " " THEN TrimStart(Tail(s)) ELSE s

\* parseInt(s, 10): leading white space and a sign are skipped, the longest
\* run of digits is read, NaN when there is no digit
ParseInt(s) ==
    LET t == TrimStart(s)
        negative == t # <<>> /\ Head(t) = "-"
        u == IF negative THEN Tail(t) ELSE t
    IN  IF u = <<>> \/ ~IsDigit(Head(u)) THEN NaN
        ELSE LET n == DigitsToNum(SubSeq(u, 1, DigitRunEnd(u, 1))) IN
             Number(IF negative THEN -n ELSE n)

\* a mutant of parseVersionToNumber: the major component weighs 1000
parseVersionToNumberThousands(versionString) ==
    LET parts == SplitOnDot(versionString)
        major == ParseInt(PartOrZero(parts, 0))
        minor == ParseInt(PartOrZero(parts, 1))
        patch == ParseInt(PartOrZero(parts, 2))
    IN  IF major.nan \/ minor.nan \/ patch.nan THEN NaN
        ELSE Number(major.val * 1000 + minor.val * 100 + patch.val)

parseVersionToNumber(versionString) ==
    LET parts == SplitOnDot(versionString)
        major == ParseInt(PartOrZero(parts, 0))
        minor == ParseInt(PartOrZero(parts, 1))
        patch == ParseInt(PartOrZero(parts, 2))
    IN  IF major.nan \/ minor.nan \/ patch.nan THEN NaN
        ELSE Number(major.val * 10000 + minor.val * 100 + patch.val)

-----------------------------------------------------------------------------
(* JavaScript objects whose property order matters: sequences of           *)
(* <<key, value>>, integer keys first in ascending order, then the other   *)
(* keys in the order they were created.                                    *)

\* a canonical decimal integer below 2^32 - 1; every such key of up to nine
\* digits is one, and no longer key of digits occurs here
IsArrayIndex(key) ==
    /\ key # <<>>
    /\ \A i \in 1..Len(key) : IsDigit(key[i])
    /\ (Len(key) = 1 \/ key[1] # "0")
    /\ Len(key) <= 9

HasKey(object, key) == \E i \in 1..Len(object) : object[i][1] = key

\* a mutant of ObjectSet: a list of entries, an existing key is not overwritten
ObjectSetAppend(object, key, value) == Append(object, <<key, value>>)

\* object[key] = value
ObjectSet(object, key, value) ==
    IF HasKey(object, key)
    THEN [i \in 1..Len(object) |->
            IF object[i][1] = key THEN <<key, value>> ELSE object[i]]
    ELSE IF IsArrayIndex(key)
    THEN LET before == Cardinality({i \in 1..Len(object) :
                            /\ IsArrayIndex(object[i][1])
                            /\ DigitsToNum(object[i][1]) < DigitsToNum(key)})
         IN  SubSeq(object, 1, before) \o <<<<key, value>>>>
                \o SubSeq(object, before + 1, Len(object))
    ELSE Append(object, <<key, value>>)

-----------------------------------------------------------------------------
(* Array.prototype.sort as Node.js runs it on an array shorter than 64     *)
(* elements: the leading run is found (and reversed when it descends       *)
(* strictly), the rest is inserted by binary search.  ECMAScript leaves    *)
(* the result implementation-defined when the comparator is not            *)
(* consistent, which it is not when a sort key is NaN.                     *)

\* (a, b) => b.sortOrder - a.sortOrder, a NaN result counting as 0
CompareSortOrder(a, b) ==
    IF a.sortOrder.nan \/ b.sortOrder.nan THEN 0
    ELSE b.sortOrder.val - a.sortOrder.val

\* the last index of the run that starts at 1, given its direction
RECURSIVE RunEnd(_, _, _)
RunEnd(array, descending, index) ==
    IF index > Len(array) THEN index - 1
    ELSE LET order == CompareSortOrder(array[index], array[index - 1]) IN
         IF (descending /\ order >= 0) \/ (~descending /\ order < 0) THEN index - 1
         ELSE RunEnd(array, descending, index + 1)

Reverse(s) == [i \in 1..Len(s) |-> s[Len(s) + 1 - i]]

\* the position (counted from 0) the pivot is inserted at
RECURSIVE BinarySearch(_, _, _, _)
BinarySearch(array, pivot, left, right) ==
    IF left >= right THEN left
    ELSE LET mid == left + ((right - left) \div 2) IN
         IF CompareSortOrder(pivot, array[mid + 1]) < 0
         THEN BinarySearch(array, pivot, left, mid)
         ELSE BinarySearch(array, pivot, mid + 1, right)

\* array[0 .. start-1] is sorted; the elements from start on are inserted
RECURSIVE BinaryInsertionSort(_, _)
BinaryInsertionSort(array, start) ==
    IF start >= Len(array) THEN array
    ELSE LET pivot == array[start + 1]
             left == BinarySearch(array, pivot, 0, start)
         IN  BinaryInsertionSort(
                 SubSeq(array, 1, left) \o <<pivot>> \o SubSeq(array, left + 1, start)
                     \o SubSeq(array, start + 2, Len(array)),
                 start + 1)

\* a mutant of SortBySortOrder: the array is left as it is
SortBySortOrderSkipped(array) == array

\* versions.sort((a, b) => b.sortOrder - a.sortOrder)
SortBySortOrder(array) ==
    IF Len(array) < 2 THEN array
    ELSE LET descending == CompareSortOrder(array[2], array[1]) < 0
             run == RunEnd(array, descending, 3)
             made == IF descending
                     THEN Reverse(SubSeq(array, 1, run)) \o SubSeq(array, run + 1, Len(array))
                     ELSE array
         IN  BinaryInsertionSort(made, run)

-----------------------------------------------------------------------------
(* fetch-game-versions.js                                                  *)

\* what the game versions endpoint answers with: an array, or something else
ArrayResponse(items) == [kind |-> "array", items |-> items]
OtherResponse == [kind |-> "other"]

\* version && version.name && version.id && version.gameVersionTypeID
IsUsable(version) ==
    /\ "name" \in DOMAIN version /\ version.name # <<>>
    /\ "id" \in DOMAIN version /\ version.id # 0
    /\ "gameVersionTypeID" \in DOMAIN version /\ version.gameVersionTypeID # 0

\* a mutant of VariantOfType: a type that is not in the catalog counts as retail
VariantOfTypeRetail(versionTypeMap, typeId) ==
    IF typeId \in DOMAIN versionTypeMap THEN versionTypeMap[typeId].variant ELSE "retail"

VariantOfType(versionTypeMap, typeId) ==
    IF typeId \in DOMAIN versionTypeMap THEN versionTypeMap[typeId].variant ELSE "unknown"

RECURSIVE AddGameVersions(_, _, _)
AddGameVersions(gameVersions, items, versionTypeMap) ==
    IF items = <<>> THEN gameVersions
    ELSE LET version == Head(items) IN
         AddGameVersions(
             IF IsUsable(version)
             THEN ObjectSet(gameVersions, version.name,
                            [id |-> version.id,
                             variant |-> VariantOfType(versionTypeMap, version.gameVersionTypeID)])
             ELSE gameVersions,
             Tail(items), versionTypeMap)

\* the object that maps each version name to {id, variant}
processGameVersionData(data, versionTypeMap) ==
    IF data.kind = "array" THEN AddGameVersions(<<>>, data.items, versionTypeMap) ELSE <<>>

\* the variants in the order their buckets are created
RECURSIVE VariantOrder(_)
VariantOrder(gameVersions) ==
    IF gameVersions = <<>> THEN <<>>
    ELSE LET rest == VariantOrder(SubSeq(gameVersions, 1, Len(gameVersions) - 1))
             variant == gameVersions[Len(gameVersions)][2].variant
         IN  IF \E i \in 1..Len(rest) : rest[i] = variant THEN rest ELSE Append(rest, variant)

\* the bucket of a variant before it is sorted
RECURSIVE VariantBucket(_, _)
VariantBucket(gameVersions, variant) ==
    IF gameVersions = <<>> THEN <<>>
    ELSE LET entry == Head(gameVersions)
             rest == VariantBucket(Tail(gameVersions), variant)
         IN  IF entry[2].variant = variant
             THEN <<[version |-> entry[1],
                     gameVersionId |-> entry[2].id,
                     sortOrder |-> parseVersionToNumber(entry[1])]>> \o rest
             ELSE rest

\* a mutant of ReleaseTimestamp: the newest entry gets the newest timestamp
ReleaseTimestampNewestLast(now, length, index) == now - index * DayMs

\* new Date(Date.now() - (versions.length - index - 1) * 86400000)
ReleaseTimestamp(now, length, index) == now - (length - index - 1) * DayMs

\* the releases of one variant, from its sorted bucket
VariantReleases(variant, versions, now) ==
    [i \in 1..Len(versions) |->
        [version |-> ToStr(versions[i].gameVersionId),
         originalVersion |-> versions[i].version,
         variant |-> variant,
         releaseTimestamp |-> ReleaseTimestamp(now, Len(versions), i - 1)]]

RECURSIVE RenovateReleases(_, _, _)
RenovateReleases(gameVersions, variants, now) ==
    IF variants = <<>> THEN <<>>
    ELSE VariantReleases(Head(variants),
                         SortBySortOrder(VariantBucket(gameVersions, Head(variants))), now)
            \o RenovateReleases(gameVersions, Tail(variants), now)

\* the document saveGameVersionsToFile writes; now is what Date.now() reads
Datasource(gameVersions, now) ==
    [lastUpdated |-> now,
     releases |-> RenovateReleases(gameVersions, VariantOrder(gameVersions), now)]

readExistingGameVersions(file) ==
    IF file.state = "json" THEN file.data ELSE NoData

RECURSIVE OldVersionsMap(_)
OldVersionsMap(releases) ==
    IF releases = <<>> THEN <<>>
    ELSE LET release == releases[Len(releases)] IN
         ObjectSet(OldVersionsMap(SubSeq(releases, 1, Len(releases) - 1)),
                   release.version,
                   [originalVersion |-> release.originalVersion, variant |-> release.variant])

RECURSIVE NewVersionsMap(_)
NewVersionsMap(gameVersions) ==
    IF gameVersions = <<>> THEN <<>>
    ELSE LET entry == gameVersions[Len(gameVersions)] IN
         ObjectSet(NewVersionsMap(SubSeq(gameVersions, 1, Len(gameVersions) - 1)),
                   ToStr(entry[2].id),
                   [originalVersion |-> entry[1], variant |-> entry[2].variant])

\* JSON.stringify of an id -> {originalVersion, variant} map: its properties in order
JsonStringifyMap(map) ==
    [i \in 1..Len(map) |->
        <<map[i][1], StringifyProperties(map[i][2], <<"originalVersion", "variant">>)>>]

\* a mutant of hasGameVersionsChanged: the entries are compared one by one in
\* the order they come in
hasGameVersionsChangedInOrder(oldData, gameVersions) ==
    IF oldData = NoData \/ "releases" \notin DOMAIN oldData THEN TRUE
    ELSE [i \in 1..Len(oldData.releases) |->
             <<oldData.releases[i].version, oldData.releases[i].originalVersion,
               oldData.releases[i].variant>>]
         # [i \in 1..Len(gameVersions) |->
             <<ToStr(gameVersions[i][2].id), gameVersions[i][1], gameVersions[i][2].variant>>]

\* a mutant of hasGameVersionsChanged: every run counts as a change
hasGameVersionsChangedAlways(oldData, gameVersions) == TRUE

hasGameVersionsChanged(oldData, gameVersions) ==
    IF oldData = NoData \/ "releases" \notin DOMAIN oldData THEN TRUE
    ELSE JsonStringifyMap(OldVersionsMap(oldData.releases))
            # JsonStringifyMap(NewVersionsMap(gameVersions))

-----------------------------------------------------------------------------
(* The inputs the parser is applied to.                                    *)

Components == (0..MaxComponent) \cup {TopComponent}

\* <<major, minor, patch>> of a well-formed version
Triples == Components \X Components \X Components

\* fewer than three numeric groups, or none at all
Degenerate ==
    { <<>>, <<"1">>, <<"1", ".", "2">>, <<"1", ".", ".", "2">>,
      <<"1", ".", "2", ".">>, <<"a", "b">>, <<".", "1", ".", "2">> }

Prefixes == { <<>>, <<"v">>, <<" ">> }

Suffixes ==
    { <<>>, <<"a">>, <<"B">>, <<"a", "b">>, <<" ">>, <<"-", "b">>, <<".", "4">> }

\* parts is the triple of a well-formed base, and <<>> for a degenerate base
Origins ==
    {[prefix |-> p, parts |-> t, base |-> Ver(t[1], t[2], t[3]), suffix |-> s] :
        p \in Prefixes, t \in Triples, s \in Suffixes}
    \cup
    {[prefix |-> p, parts |-> <<>>, base |-> d, suffix |-> s] :
        p \in Prefixes, d \in Degenerate, s \in Suffixes}

-----------------------------------------------------------------------------
(* The parser applied to one input.                                        *)

ParserOff ==
    /\ origin = [prefix |-> <<>>, parts |-> <<>>, base |-> <<>>, suffix |-> <<>>]
    /\ versionName = <<>>
    /\ interfaceVersion = NULL
    /\ parserPc = "off"
    /\ sortOrder = NotComputed

TransformOff ==
    /\ curseforgeVersions = <<>>
    /\ parsedVersions = <<>>
    /\ versionsByVariant = <<>>
    /\ transformPc = "off"

AddonOff ==
    /\ versionsFile = MissingFile
    /\ addon = [pc |-> "off"]

GameOff ==
    /\ upstream = "off"
    /\ gameVersionsFile = MissingFile
    /\ game = [pc |-> "off"]

SideOff ==
    /\ detector = [pc |-> "off"]
    /\ rival = [pc |-> "off"]

ParserInit ==
    /\ SideOff
    /\ origin \in Origins
    /\ versionName = origin.prefix \o origin.base \o origin.suffix
    /\ interfaceVersion = NULL
    /\ parserPc = "ready"
    /\ sortOrder = NotComputed
    /\ TransformOff
    /\ clock = 0
    /\ AddonOff
    /\ GameOff

ParseInterfaceVersion ==
    /\ parserPc = "ready"
    /\ interfaceVersion' = parseInterfaceVersion(versionName)
    /\ parserPc' = "done"
    /\ UNCHANGED <<sideVars, origin, versionName, sortOrder, transformVars, clock, addonVars, gameVars>>

ParserNext == ParseInterfaceVersion

SpecParser == ParserInit /\ [][ParserNext]_vars

-----------------------------------------------------------------------------
(* Both parsers applied to one input, one after the other.                 *)

\* one- and two-digit components, and one of three digits
SortKeyComponents == {0, 1, MaxComponent, TopComponent, WideComponent}

SortKeyOrigins ==
    {[prefix |-> p, parts |-> t, base |-> Ver(t[1], t[2], t[3]), suffix |-> s] :
        p \in Prefixes, t \in SortKeyComponents \X SortKeyComponents \X SortKeyComponents,
        s \in Suffixes}
    \cup
    {[prefix |-> p, parts |-> <<>>, base |-> d, suffix |-> s] :
        p \in Prefixes, d \in Degenerate, s \in Suffixes}

SortKeyInit ==
    /\ SideOff
    /\ origin \in SortKeyOrigins
    /\ versionName = origin.prefix \o origin.base \o origin.suffix
    /\ interfaceVersion = NULL
    /\ parserPc = "ready"
    /\ sortOrder = NotComputed
    /\ TransformOff
    /\ clock = 0
    /\ AddonOff
    /\ GameOff

ParseVersionToNumber ==
    /\ parserPc = "done"
    /\ sortOrder' = parseVersionToNumber(versionName)
    /\ parserPc' = "numbered"
    /\ UNCHANGED <<sideVars, origin, versionName, interfaceVersion, transformVars, clock, addonVars, gameVars>>

SortKeyNext == ParseInterfaceVersion \/ ParseVersionToNumber

SpecSortKey == SortKeyInit /\ [][SortKeyNext]_vars

-----------------------------------------------------------------------------
(* parseVersions and processVersionsByVariant applied to one input.        *)

S(major, minor, patch) == Ver(major, minor, patch)

\* names of upstream versions: two that share an interface version, one that
\* does not, and one that does not parse
RecordNames == { S(1, 15, 3), S(1, 15, 3) \o <<"a">>, S(11, 2, 0), <<"x">> }

RecordVariants == {"classic_era", "retail"}

\* upstream records with only the required properties, and retail records as
\* getAllWowVersions builds them, with the optional type properties
CurseforgeRecords ==
    {[name |-> n, variant |-> v] : n \in RecordNames, v \in RecordVariants}
    \cup
    {[name |-> n, variant |-> "retail", type |-> 517,
      versionTypeName |-> "WoW Retail", versionTypeSlug |-> "wow-retail"] :
        n \in RecordNames}

\* the sequences of at most n elements of set
SeqsUpTo(set, n) == UNION {[1..k -> set] : k \in 0..n}

TransformInit ==
    /\ SideOff
    /\ curseforgeVersions \in SeqsUpTo(CurseforgeRecords, MaxRecords)
    /\ parsedVersions = <<>>
    /\ versionsByVariant = <<>>
    /\ transformPc = "ready"
    /\ ParserOff
    /\ clock = 0
    /\ AddonOff
    /\ GameOff

ParseVersions ==
    /\ transformPc = "ready"
    /\ parsedVersions' = parseVersions(curseforgeVersions)
    /\ transformPc' = "parsed"
    /\ UNCHANGED <<sideVars, curseforgeVersions, versionsByVariant, parserVars, clock, addonVars, gameVars>>

ProcessVersionsByVariant ==
    /\ transformPc = "parsed"
    /\ versionsByVariant' = processVersionsByVariant(parsedVersions)
    /\ transformPc' = "grouped"
    /\ UNCHANGED <<sideVars, curseforgeVersions, parsedVersions, parserVars, clock, addonVars, gameVars>>

TransformNext == ParseVersions \/ ProcessVersionsByVariant

SpecTransform == TransformInit /\ [][TransformNext]_vars

-----------------------------------------------------------------------------
(* The addon-versions pipeline: fetchAndSaveVersions, run after run.       *)

\* what the versions endpoint can answer: a list of version groups
VersionGroupResponses ==
    { <<>>,
      <<[type |-> 67408, versions |-> <<S(1, 15, 3)>>]>>,
      <<[type |-> 67408, versions |-> <<S(1, 15, 3), S(1, 15, 4)>>]>>,
      <<[type |-> 67408, versions |-> <<S(1, 15, 4), S(1, 15, 3)>>]>>,
      <<[type |-> 67408, versions |-> <<S(1, 15, 3), S(1, 15, 3) \o <<"a">>>>],
        [type |-> 517, versions |-> <<S(11, 2, 0)>>]>>,
      <<[type |-> 999, versions |-> <<S(9, 9, 9)>>],
        [type |-> 67408, versions |-> <<S(1, 15, 3)>>]>>,
      <<[type |-> 67408, versions |-> <<<<"x">>, S(1, 15, 3)>>]>>,
      <<[type |-> 67408, versions |-> <<S(1, 15, 3), NULL>>]>>,
      <<[type |-> 517]>> }

\* the locals of a process that has not got anywhere yet, with what it has
\* done so far: the error it ended with, the network calls it made, the times
\* it read and wrote versions.json, when it started and what versions.json
\* was then
AddonFresh(pc) ==
    [pc |-> pc, exitCode |-> -1, error |-> "none", apiKey |-> TRUE,
     calls |-> 0, reads |-> 0, writes |-> 0,
     startedAt |-> 0, artifactBefore |-> MissingFile,
     versionGroups |-> <<>>, parsed |-> <<>>, byVariant |-> <<>>,
     existingData |-> NoData, output |-> NoData]

AddonInit ==
    /\ SideOff
    /\ clock = 0
    /\ versionsFile \in {MissingFile, CorruptFile}
    /\ addon = AddonFresh("idle")
    /\ ParserOff
    /\ TransformOff
    /\ GameOff

\* a mutant of Tick: the wall clock is set, forward or back
TickAdjusted ==
    /\ clock' \in (0..MaxClock) \ {clock}
    /\ UNCHANGED <<sideVars, parserVars, transformVars, addonVars, gameVars>>

\* time passes
Tick ==
    /\ clock < MaxClock
    /\ clock' = clock + 1
    /\ UNCHANGED <<sideVars, parserVars, transformVars, addonVars, gameVars>>

\* the scheduler starts the process; validateApiKey exits 1 without a key
AddonStart(hasKey) ==
    /\ addon.pc \in {"idle", "exited"}
    /\ addon' = IF hasKey
                THEN [AddonFresh("fetching") EXCEPT !.startedAt = clock,
                                                     !.artifactBefore = versionsFile]
                ELSE [AddonFresh("exited") EXCEPT !.exitCode = 1,
                                                   !.error = "MissingApiKey",
                                                   !.apiKey = FALSE,
                                                   !.startedAt = clock,
                                                   !.artifactBefore = versionsFile]
    /\ UNCHANGED <<sideVars, parserVars, transformVars, clock, versionsFile, gameVars>>

\* a mutant of AddonFetchFails: the failed run leaves a truncated versions.json
AddonFetchFailsTruncates ==
    /\ addon.pc = "fetching"
    /\ addon' = [addon EXCEPT !.pc = "exited", !.exitCode = 1,
                              !.error = "UpstreamError", !.calls = @ + 1]
    /\ versionsFile' = CorruptFile
    /\ UNCHANGED <<sideVars, parserVars, transformVars, clock, gameVars>>

\* await client.getAllWowVersions() throws: the catch block exits 1
AddonFetchFails ==
    /\ addon.pc = "fetching"
    /\ addon' = [addon EXCEPT !.pc = "exited", !.exitCode = 1,
                              !.error = "UpstreamError", !.calls = @ + 1]
    /\ UNCHANGED <<sideVars, parserVars, transformVars, clock, versionsFile, gameVars>>

\* await client.getAllWowVersions() returns; the versions are parsed and
\* grouped, and when parseVersions throws the catch block exits 1
AddonFetched(versionGroups) ==
    /\ addon.pc = "fetching"
    /\ LET wowVersions == getAllWowVersions(versionGroups)
           parsed == parseVersions(wowVersions)
       IN  addon' = IF parseVersionsThrows(wowVersions)
                    THEN [addon EXCEPT !.pc = "exited", !.exitCode = 1,
                                       !.error = "TypeError", !.calls = @ + 1,
                                       !.versionGroups = versionGroups]
                    ELSE [addon EXCEPT !.pc = "reading",
                                       !.calls = @ + 1,
                                       !.versionGroups = versionGroups,
                                       !.parsed = parsed,
                                       !.byVariant = processVersionsByVariant(parsed)]
    /\ UNCHANGED <<sideVars, parserVars, transformVars, clock, versionsFile, gameVars>>

\* a mutant of AddonRead: the timestamp of the output is the instant the run
\* started at
AddonReadStampsStart ==
    /\ addon.pc = "reading"
    /\ LET existingData == readExistingVersions(versionsFile)
           output == createOutputObject(addon.parsed, addon.byVariant, getVersionTypes,
                                        addon.startedAt)
       IN  addon' = [addon EXCEPT !.pc = "writing",
                                  !.reads = @ + 1,
                                  !.existingData = existingData,
                                  !.output = KeepTimestampIfUnchanged(existingData, output)]
    /\ UNCHANGED <<sideVars, parserVars, transformVars, clock, versionsFile, gameVars>>

\* a mutant of AddonRead: a versions.json that cannot be read ends the run
AddonReadFatal ==
    /\ addon.pc = "reading"
    /\ LET existingData == readExistingVersions(versionsFile)
           output == createOutputObject(addon.parsed, addon.byVariant, getVersionTypes, clock)
       IN  addon' = IF existingData = NoData
                    THEN [addon EXCEPT !.pc = "exited", !.exitCode = 1,
                                       !.reads = @ + 1, !.error = "ReadError"]
                    ELSE [addon EXCEPT !.pc = "writing",
                                       !.reads = @ + 1,
                                       !.existingData = existingData,
                                       !.output = KeepTimestampIfUnchanged(existingData, output)]
    /\ UNCHANGED <<sideVars, parserVars, transformVars, clock, versionsFile, gameVars>>

\* await readExistingVersions() returns; the output object is created and its
\* timestamp set back when the versions have not changed
AddonRead ==
    /\ addon.pc = "reading"
    /\ LET existingData == readExistingVersions(versionsFile)
           output == createOutputObject(addon.parsed, addon.byVariant, getVersionTypes, clock)
       IN  addon' = [addon EXCEPT !.pc = "writing",
                                  !.reads = @ + 1,
                                  !.existingData = existingData,
                                  !.output = KeepTimestampIfUnchanged(existingData, output)]
    /\ UNCHANGED <<sideVars, parserVars, transformVars, clock, versionsFile, gameVars>>

\* await saveVersionsToFile(output) returns; the summary is printed, exit 0
AddonWrite ==
    /\ addon.pc = "writing"
    /\ versionsFile' = JsonFile(addon.output)
    /\ addon' = [addon EXCEPT !.pc = "exited", !.exitCode = 0, !.writes = @ + 1]
    /\ UNCHANGED <<sideVars, parserVars, transformVars, clock, gameVars>>

AddonNext ==
    \/ Tick
    \/ \E hasKey \in BOOLEAN : AddonStart(hasKey)
    \/ AddonFetchFails
    \/ \E versionGroups \in VersionGroupResponses : AddonFetched(versionGroups)
    \/ AddonRead
    \/ AddonWrite

SpecAddon == AddonInit /\ [][AddonNext]_vars

-----------------------------------------------------------------------------
(* The game-version-id pipeline: fetchAndSaveGameVersions.                 *)

GameRecord(name, id, typeId) == [name |-> name, id |-> id, gameVersionTypeID |-> typeId]

\* names with distinct sort keys, and one whose sort key is NaN
GameNames == { S(1, 0, 0), S(2, 0, 0), S(1, 5, 0), <<"x">> }
GameIds == {1, 2}
GameTypeIds == {517, 999}

GameRecords == {GameRecord(n, i, ty) : n \in GameNames, i \in GameIds, ty \in GameTypeIds}

\* every answer of at most MaxGameRecords records
BoundedResponses == {ArrayResponse(items) : items \in SeqsUpTo(GameRecords, MaxGameRecords)}

\* answers that differ in order only, in content, in what is usable, answers
\* that hold nothing usable, one that has a name twice, and one that has an id
\* twice
CuratedResponses ==
    { ArrayResponse(<<GameRecord(S(1, 15, 3), 11, 67408)>>),
      ArrayResponse(<<GameRecord(S(1, 15, 3), 11, 67408), GameRecord(S(1, 15, 4), 12, 67408)>>),
      ArrayResponse(<<GameRecord(S(1, 15, 4), 12, 67408), GameRecord(S(1, 15, 3), 11, 67408)>>),
      ArrayResponse(<<GameRecord(S(1, 15, 3), 11, 67408), GameRecord(S(11, 2, 0), 7, 517),
                      GameRecord(S(9, 9, 9), 13, 999)>>),
      ArrayResponse(<<GameRecord(S(1, 15, 3), 11, 67408), [name |-> S(1, 15, 4), id |-> 12]>>),
      ArrayResponse(<<[name |-> S(1, 15, 3), gameVersionTypeID |-> 67408]>>),
      ArrayResponse(<<GameRecord(S(1, 15, 3), 11, 999), GameRecord(S(1, 15, 3), 12, 67408)>>),
      ArrayResponse(<<GameRecord(S(1, 15, 3), 11, 67408), GameRecord(S(1, 15, 4), 11, 67408)>>),
      ArrayResponse(<<>>),
      OtherResponse }

GameResponses == IF upstream = "bounded" THEN BoundedResponses ELSE CuratedResponses

\* the locals of a process that has not got anywhere yet, with what it has
\* done so far
GameFresh(pc) ==
    [pc |-> pc, exitCode |-> -1, error |-> "none", apiKey |-> TRUE,
     calls |-> 0, reads |-> 0, writes |-> 0,
     startedAt |-> 0, artifactBefore |-> MissingFile,
     gameVersionData |-> OtherResponse, gameVersions |-> <<>>,
     existingData |-> NoData, datasource |-> NoData]

\* run after run, the endpoint answering from the curated answers
GameInit ==
    /\ SideOff
    /\ clock = 0
    /\ upstream = "curated"
    /\ gameVersionsFile \in {MissingFile, CorruptFile}
    /\ game = GameFresh("idle")
    /\ ParserOff
    /\ TransformOff
    /\ AddonOff

\* one run in an empty directory, the endpoint answering with any bounded answer
GameSaveInit ==
    /\ SideOff
    /\ clock = 0
    /\ upstream = "bounded"
    /\ gameVersionsFile = MissingFile
    /\ game = GameFresh("idle")
    /\ ParserOff
    /\ TransformOff
    /\ AddonOff

\* a mutant of GameStart: the key is not looked at before the fetch
GameStartUnchecked(hasKey) ==
    /\ \/ game.pc = "idle"
       \/ game.pc = "exited" /\ upstream = "curated"
    /\ game' = [GameFresh("fetching") EXCEPT !.apiKey = hasKey,
                                             !.startedAt = clock,
                                             !.artifactBefore = gameVersionsFile]
    /\ UNCHANGED <<sideVars, parserVars, transformVars, clock, addonVars, upstream, gameVersionsFile>>

\* the scheduler starts the process; validateApiKey exits 1 without a key
GameStart(hasKey) ==
    /\ \/ game.pc = "idle"
       \/ game.pc = "exited" /\ upstream = "curated"
    /\ game' = IF hasKey
               THEN [GameFresh("fetching") EXCEPT !.startedAt = clock,
                                                   !.artifactBefore = gameVersionsFile]
               ELSE [GameFresh("exited") EXCEPT !.exitCode = 1,
                                                 !.error = "MissingApiKey",
                                                 !.apiKey = FALSE,
                                                 !.startedAt = clock,
                                                 !.artifactBefore = gameVersionsFile]
    /\ UNCHANGED <<sideVars, parserVars, transformVars, clock, addonVars, upstream, gameVersionsFile>>

\* await client.getGameVersionIds() throws: the catch block exits 1
GameFetchFails ==
    /\ game.pc = "fetching"
    /\ game' = [game EXCEPT !.pc = "exited", !.exitCode = 1,
                            !.error = "UpstreamError", !.calls = @ + 1]
    /\ UNCHANGED <<sideVars, parserVars, transformVars, clock, addonVars, upstream, gameVersionsFile>>

\* a mutant of GameFetched: the run goes on with no game version at all
GameFetchedUnguarded ==
    /\ game.pc = "fetching"
    /\ \E gameVersionData \in GameResponses :
         game' = [game EXCEPT !.pc = "reading", !.calls = @ + 1,
                              !.gameVersionData = gameVersionData,
                              !.gameVersions =
                                  processGameVersionData(gameVersionData, getVersionTypes)]
    /\ UNCHANGED <<sideVars, parserVars, transformVars, clock, addonVars, upstream, gameVersionsFile>>

\* await client.getGameVersionIds() returns; exit 1 when nothing is usable
GameFetched ==
    /\ game.pc = "fetching"
    /\ \E gameVersionData \in GameResponses :
         LET gameVersions == processGameVersionData(gameVersionData, getVersionTypes) IN
         game' = IF Len(gameVersions) = 0
                 THEN [game EXCEPT !.pc = "exited", !.exitCode = 1,
                                   !.error = "NoGameVersionIds", !.calls = @ + 1,
                                   !.gameVersionData = gameVersionData]
                 ELSE [game EXCEPT !.pc = "reading", !.calls = @ + 1,
                                   !.gameVersionData = gameVersionData,
                                   !.gameVersions = gameVersions]
    /\ UNCHANGED <<sideVars, parserVars, transformVars, clock, addonVars, upstream, gameVersionsFile>>

\* await readExistingGameVersions() returns: without a change the summary is
\* printed and the run is over; otherwise saveGameVersionsToFile builds the
\* document and starts writing it
GameRead ==
    /\ game.pc = "reading"
    /\ LET existingData == readExistingGameVersions(gameVersionsFile) IN
       game' = IF existingData # NoData /\ ~hasGameVersionsChanged(existingData, game.gameVersions)
               THEN [game EXCEPT !.pc = "exited", !.exitCode = 0,
                                 !.reads = @ + 1,
                                 !.existingData = existingData]
               ELSE [game EXCEPT !.pc = "writing",
                                 !.reads = @ + 1,
                                 !.existingData = existingData,
                                 !.datasource = Datasource(game.gameVersions, clock)]
    /\ UNCHANGED <<sideVars, parserVars, transformVars, clock, addonVars, upstream, gameVersionsFile>>

\* await fs.writeFile(...) returns; the summary is printed, exit 0
GameWrite ==
    /\ game.pc = "writing"
    /\ gameVersionsFile' = JsonFile(game.datasource)
    /\ game' = [game EXCEPT !.pc = "exited", !.exitCode = 0, !.writes = @ + 1]
    /\ UNCHANGED <<sideVars, parserVars, transformVars, clock, addonVars, upstream>>

GameNext ==
    \/ Tick
    \/ \E hasKey \in BOOLEAN : GameStart(hasKey)
    \/ GameFetchFails
    \/ GameFetched
    \/ GameRead
    \/ GameWrite

\* run after run over the curated answers
SpecGame == GameInit /\ [][GameNext]_vars

\* one run, at one instant
GameSaveNext ==
    \/ \E hasKey \in BOOLEAN : GameStart(hasKey)
    \/ GameFetchFails
    \/ GameFetched
    \/ GameRead
    \/ GameWrite

\* one run over every bounded answer
SpecGameSave == GameSaveInit /\ [][GameSaveNext]_vars

-----------------------------------------------------------------------------
(* Either pipeline, run after run.                                         *)

PipelinesInit == AddonInit \/ GameInit

PipelinesNext ==
    \/ Tick
    \/ \E hasKey \in BOOLEAN : AddonStart(hasKey)
    \/ AddonFetchFails
    \/ \E versionGroups \in VersionGroupResponses : AddonFetched(versionGroups)
    \/ AddonRead
    \/ AddonWrite
    \/ \E hasKey \in BOOLEAN : GameStart(hasKey)
    \/ GameFetchFails
    \/ GameFetched
    \/ GameRead
    \/ GameWrite

SpecPipelines == PipelinesInit /\ [][PipelinesNext]_vars

-----------------------------------------------------------------------------
(* Claims about parseInterfaceVersion.                                     *)

\* n rendered in decimal, zero-padded to at least two digits
TwoDigits(n) == IF n < 10 THEN <<"0", DigitChar(n)>> ELSE ToStr(n)

\* the input is exactly "major.minor.patch", nothing before or after
IsPlainVersion == origin.parts # <<>> /\ origin.prefix = <<>> /\ origin.suffix = <<>>

\* C1: parseInterfaceVersion("major.minor.patch") is major followed by minor
\* and patch, each zero-padded to two digits.
C1_PaddingRule ==
    (parserPc = "done" /\ IsPlainVersion) =>
        interfaceVersion =
            ToStr(origin.parts[1]) \o TwoDigits(origin.parts[2]) \o TwoDigits(origin.parts[3])

C1_Witness ==
    /\ parserPc = "done"
    /\ IsPlainVersion
    /\ origin.parts = <<1, 15, 3>>
    /\ interfaceVersion = <<"1", "1", "5", "0", "3">>

\* s is, as a whole, digits '.' digits '.' digits optionally followed by one letter
IsVersionToken(s) ==
    LET m == RegexMatchAt(s, 1) IN
    /\ m # NoMatch
    /\ LET n == Len(m[1]) + Len(m[2]) + Len(m[3]) + 2 IN
         \/ Len(s) = n
         \/ Len(s) = n + 1 /\ IsLetter(s[n + 1])

\* C2: parseInterfaceVersion returns null for every string that is not, as a
\* whole, digits '.' digits '.' digits optionally followed by one letter.
C2_RejectsMalformed ==
    (parserPc = "done" /\ ~IsVersionToken(versionName)) => interfaceVersion = NULL

\* C10: a single trailing letter is ignored: parseInterfaceVersion(v + c) is
\* parseInterfaceVersion(v) for a well-formed v and a letter c.
C10_TrailingLetterIgnored ==
    ( /\ parserPc = "done"
      /\ origin.parts # <<>>
      /\ origin.prefix = <<>>
      /\ Len(origin.suffix) = 1
      /\ IsLetter(origin.suffix[1]) ) =>
        /\ interfaceVersion # NULL
        /\ interfaceVersion = parseInterfaceVersion(origin.base)

C10_Witness ==
    /\ parserPc = "done"
    /\ versionName = <<"4", ".", "0", ".", "3", "a">>
    /\ interfaceVersion = <<"4", "0", "0", "0", "3">>

-----------------------------------------------------------------------------
(* Claims about parseVersionToNumber.                                      *)

\* the segments of versionName between its dots
Segments == SplitOnDot(versionName)

\* segment k is there and is not empty
HasSegment(k) == k <= Len(Segments) /\ Segments[k] # <<>>

AllDigits(s) == s # <<>> /\ \A i \in 1..Len(s) : IsDigit(s[i])

\* C11 as claimed: missing segments count as 0, the result is
\* major*10000 + minor*100 + patch over the first three segments, and NaN as
\* soon as one of them is not a number (an empty segment read as missing).
C11_NumericSegmentsOnly ==
    parserPc = "numbered" =>
        IF \E k \in 1..3 : HasSegment(k) /\ ~AllDigits(Segments[k])
        THEN sortOrder = NaN
        ELSE sortOrder =
                Number((IF HasSegment(1) THEN DigitsToNum(Segments[1]) ELSE 0) * 10000
                       + (IF HasSegment(2) THEN DigitsToNum(Segments[2]) ELSE 0) * 100
                       + (IF HasSegment(3) THEN DigitsToNum(Segments[3]) ELSE 0))

\* what is left of a segment after its leading blanks
RECURSIVE Unblanked(_)
Unblanked(s) == IF s # <<>> /\ s[1] = " " THEN Unblanked(SubSeq(s, 2, Len(s))) ELSE s

\* the digits a segment starts with, after blanks and a minus sign
LeadingDigits(s) ==
    LET u == Unblanked(s)
        t == IF u # <<>> /\ u[1] = "-" THEN SubSeq(u, 2, Len(u)) ELSE u
        n == Cardinality({i \in 1..Len(t) : \A j \in 1..i : IsDigit(t[j])})
    IN  SubSeq(t, 1, n)

IsNegative(s) == Unblanked(s) # <<>> /\ Unblanked(s)[1] = "-"

\* the value segment k contributes: 0 when missing or empty, else the value
\* of the digits it starts with
SegmentValue(k) ==
    IF ~HasSegment(k) THEN 0
    ELSE IF IsNegative(Segments[k]) THEN 0 - DigitsToNum(LeadingDigits(Segments[k]))
    ELSE DigitsToNum(LeadingDigits(Segments[k]))

\* C11 as amended: each of the first three segments is read by the digits it
\* starts with (what follows them is ignored), a missing or empty segment is
\* 0, and the result is NaN exactly when one of them starts with no digit.
C11_LeadingDigitsOnly ==
    parserPc = "numbered" =>
        IF \E k \in 1..3 : HasSegment(k) /\ LeadingDigits(Segments[k]) = <<>>
        THEN sortOrder = NaN
        ELSE sortOrder = Number(SegmentValue(1) * 10000 + SegmentValue(2) * 100 + SegmentValue(3))

\* "1" gives 10000: the two missing segments count as 0
C11_Witness ==
    /\ parserPc = "numbered"
    /\ versionName = <<"1">>
    /\ sortOrder = Number(10000)

-----------------------------------------------------------------------------
(* Claims about parseVersions and processVersionsByVariant.                *)

\* the positions of the input whose name parseInterfaceVersion accepts
Accepted == {i \in 1..Len(curseforgeVersions) :
                parseInterfaceVersion(curseforgeVersions[i].name) # NULL}

\* the k-th smallest element of a set of positions
RECURSIVE Nth(_, _)
Nth(set, k) ==
    LET least == CHOOSE i \in set : \A j \in set : i <= j IN
    IF k = 1 THEN least ELSE Nth(set \ {least}, k - 1)

\* output record out carries exactly what input record in has
CarriesThrough(in, out) ==
    /\ out.version = parseInterfaceVersion(in.name)
    /\ out.name = in.name
    /\ DOMAIN out = {"version"} \cup {c \in CopiedProperties : SourceProperty(c) \in DOMAIN in}
    /\ \A c \in DOMAIN out \ {"version"} : out[c] = in[SourceProperty(c)]

\* C6: parseVersions returns, in input order, one record for each input whose
\* name parses; each carries the interface version, the name and the input's
\* variant and type properties, absent ones left absent.
C6_LenientOrderedFilter ==
    transformPc \in {"parsed", "grouped"} =>
        /\ Len(parsedVersions) = Cardinality(Accepted)
        /\ Len(parsedVersions) <= Len(curseforgeVersions)
        /\ \A k \in 1..Len(parsedVersions) :
               CarriesThrough(curseforgeVersions[Nth(Accepted, k)], parsedVersions[k])

C6_Witness ==
    /\ transformPc = "parsed"
    /\ Len(curseforgeVersions) = 3
    /\ curseforgeVersions[1].name = S(1, 15, 3)
    /\ curseforgeVersions[2].name = <<"x">>
    /\ curseforgeVersions[3].name = S(11, 2, 0)
    /\ "type" \in DOMAIN curseforgeVersions[1]
    /\ "type" \notin DOMAIN curseforgeVersions[3]
    /\ Len(parsedVersions) = 2
    /\ parsedVersions[1].version = <<"1", "1", "5", "0", "3">>
    /\ parsedVersions[2].version = <<"1", "1", "0", "2", "0", "0">>
    /\ "gameVersionTypeId" \notin DOMAIN parsedVersions[2]

BucketKey(variant, i) == ParseIntDigits(versionsByVariant[variant][i].version)

\* C7 as claimed: every bucket is sorted strictly descending by the integer
\* value of the interface version, its maximum at index 0.
C7_StrictlyDescending ==
    transformPc = "grouped" =>
        \A v \in DOMAIN versionsByVariant :
            \A i \in 1..Len(versionsByVariant[v]), j \in 1..Len(versionsByVariant[v]) :
                i < j => BucketKey(v, i) > BucketKey(v, j)

\* C7 as amended: every bucket is sorted in non-increasing order of the integer
\* value of the interface version (equal keys may be neighbours), and the entry
\* at index 0 has the maximum key of its bucket.
C7_NonIncreasing ==
    transformPc = "grouped" =>
        \A v \in DOMAIN versionsByVariant :
            /\ \A i \in 1..(Len(versionsByVariant[v]) - 1) :
                   BucketKey(v, i) >= BucketKey(v, i + 1)
            /\ \A i \in 1..Len(versionsByVariant[v]) :
                   BucketKey(v, 1) >= BucketKey(v, i)

\* a bucket whose input order was ascending and that holds two equal keys
C7_Witness ==
    /\ transformPc = "grouped"
    /\ Len(parsedVersions) = 3
    /\ \A i \in 1..3 : parsedVersions[i].variant = "retail"
    /\ parsedVersions[1].name = S(1, 15, 3)
    /\ parsedVersions[2].name = S(1, 15, 3) \o <<"a">>
    /\ parsedVersions[3].name = S(11, 2, 0)
    /\ versionsByVariant["retail"][1].name = S(11, 2, 0)
    /\ versionsByVariant["retail"][2].name = S(1, 15, 3)

-----------------------------------------------------------------------------
(* Claims about the addon-versions pipeline.                               *)

\* C3: the lastUpdated persisted in versions.json changes only when the
\* persisted versions array changes or no readable document was there before.
C3_TimestampChangesOnlyWithVersions ==
    [][ ( /\ versionsFile.state = "json"
          /\ versionsFile'.state = "json"
          /\ versionsFile'.data.lastUpdated # versionsFile.data.lastUpdated )
        => versionsFile'.data.versions # versionsFile.data.versions ]_vars

\* a run that found its versions already persisted has finished, later than
\* the run that wrote them, and the old timestamp is still there
C3_Witness ==
    /\ addon.pc = "exited"
    /\ addon.exitCode = 0
    /\ addon.existingData # NoData
    /\ addon.parsed # <<>>
    /\ addon.existingData.versions = addon.parsed
    /\ versionsFile.state = "json"
    /\ versionsFile.data.lastUpdated = addon.existingData.lastUpdated
    /\ versionsFile.data.lastUpdated < clock

\* the run found a readable document whose versions serialize like its own
AddonUnchangedRunDone ==
    /\ addon.pc = "exited"
    /\ addon.exitCode = 0
    /\ addon.existingData # NoData
    /\ JsonStringifyVersions(addon.existingData) = JsonStringifyVersions(addon.output)

\* C4: in the no-change case the run still writes versions.json, once, and the
\* written lastUpdated is the previous document's.
C4_UnchangedStillWritten ==
    AddonUnchangedRunDone =>
        /\ addon.writes = 1
        /\ versionsFile = JsonFile(addon.output)
        /\ versionsFile.data.lastUpdated = addon.existingData.lastUpdated

C4_Witness ==
    /\ AddonUnchangedRunDone
    /\ addon.writes = 1
    /\ Len(addon.parsed) = 2
    /\ addon.existingData.lastUpdated < clock
    /\ versionsFile.data.lastUpdated = addon.existingData.lastUpdated

-----------------------------------------------------------------------------
(* Claims about the game-version-id pipeline.                              *)

\* an ordered id -> {originalVersion, variant} object as a plain mapping
AsMapping(map) ==
    [key \in {map[i][1] : i \in 1..Len(map)} |->
        (CHOOSE i \in 1..Len(map) : map[i][1] = key) ]

MappingOf(map) == [key \in DOMAIN AsMapping(map) |-> map[AsMapping(map)[key]][2]]

\* the run read a document whose releases give the mapping the fetched records give
GameUnchangedRunDone ==
    /\ game.pc = "exited"
    /\ game.existingData # NoData
    /\ "releases" \in DOMAIN game.existingData
    /\ MappingOf(OldVersionsMap(game.existingData.releases))
           = MappingOf(NewVersionsMap(game.gameVersions))

Releases == gameVersionsFile.data.releases

SortKey(release) == parseVersionToNumber(release.originalVersion)

\* C8 as claimed, read in its favour (entries whose sort key is NaN are not
\* compared): within a variant, an earlier release never has a smaller parsed
\* version number than a later one, whatever the names are.
C8_NewestFirst ==
    gameVersionsFile.state = "json" =>
        \A i \in 1..Len(Releases), j \in 1..Len(Releases) :
            ( /\ i < j
              /\ Releases[i].variant = Releases[j].variant
              /\ ~SortKey(Releases[i]).nan
              /\ ~SortKey(Releases[j]).nan )
            => SortKey(Releases[i]).val >= SortKey(Releases[j]).val

\* every release of the variant has a numeric sort key
NumericVariant(variant) ==
    \A i \in 1..Len(Releases) :
        Releases[i].variant = variant => ~SortKey(Releases[i]).nan

\* C8 as amended: the releases of a variant in which every name has a numeric
\* sort key appear in non-increasing order of parseVersionToNumber.
C8_NewestFirstWhenNumeric ==
    gameVersionsFile.state = "json" =>
        \A i \in 1..Len(Releases), j \in 1..Len(Releases) :
            ( /\ i < j
              /\ Releases[i].variant = Releases[j].variant
              /\ NumericVariant(Releases[i].variant) )
            => SortKey(Releases[i]).val >= SortKey(Releases[j]).val

\* three names of one variant arrived oldest first and were written newest first
C8_Witness ==
    /\ gameVersionsFile.state = "json"
    /\ Len(game.gameVersions) = 3
    /\ game.gameVersions[1][1] = S(1, 0, 0)
    /\ game.gameVersions[2][1] = S(1, 5, 0)
    /\ game.gameVersions[3][1] = S(2, 0, 0)
    /\ \A i \in 1..3 : Releases[i].variant = "retail"
    /\ Releases[1].originalVersion = S(2, 0, 0)
    /\ Releases[2].originalVersion = S(1, 5, 0)
    /\ Releases[3].originalVersion = S(1, 0, 0)

\* C9: of two releases of a variant, the one with the larger parsed version
\* number has the later or the same releaseTimestamp.
C9_NewerVersionNewerTimestamp ==
    gameVersionsFile.state = "json" =>
        \A i \in 1..Len(Releases), j \in 1..Len(Releases) :
            ( /\ Releases[i].variant = Releases[j].variant
              /\ ~SortKey(Releases[i]).nan
              /\ ~SortKey(Releases[j]).nan
              /\ SortKey(Releases[i]).val > SortKey(Releases[j]).val )
            => Releases[i].releaseTimestamp >= Releases[j].releaseTimestamp

-----------------------------------------------------------------------------
(* Claims about how the pipelines end.                                     *)

\* C13: when the upstream fetch raises, the run ends with exit code 1, has
\* written nothing, and the artifact is what it was before the run; in both
\* pipelines.
C13_FetchFailureAborts ==
    /\ (addon.pc = "exited" /\ addon.error = "UpstreamError") =>
           /\ addon.exitCode = 1
           /\ addon.writes = 0
           /\ versionsFile = addon.artifactBefore
    /\ (game.pc = "exited" /\ game.error = "UpstreamError") =>
           /\ game.exitCode = 1
           /\ game.writes = 0
           /\ gameVersionsFile = game.artifactBefore

\* a fetch failed after an earlier run had written versions.json
C13_Witness ==
    /\ addon.pc = "exited"
    /\ addon.error = "UpstreamError"
    /\ addon.calls = 1
    /\ versionsFile.state = "json"
    /\ versionsFile.data.versions # <<>>
    /\ versionsFile.data.lastUpdated < addon.startedAt

\* the records of the answer the game versions endpoint gave
UpstreamRecords ==
    IF game.gameVersionData.kind = "array" THEN game.gameVersionData.items ELSE <<>>

\* name, id and type id are all there
HasRequiredFields(record) == {"name", "id", "gameVersionTypeID"} \subseteq DOMAIN record

\* record i is tagged "unknown" in the written releases
KeptAsUnknown(i) ==
    \E k \in 1..Len(Releases) :
        /\ Releases[k].originalVersion = UpstreamRecords[i].name
        /\ Releases[k].version = ToStr(UpstreamRecords[i].id)
        /\ Releases[k].variant = "unknown"

\* C14 as claimed: every upstream record with name, id and type id whose type
\* id is not in the catalog is in the written releases, tagged "unknown".
C14_UnknownNeverDropped ==
    (game.pc = "exited" /\ game.exitCode = 0) =>
        \A i \in 1..Len(UpstreamRecords) :
            ( /\ HasRequiredFields(UpstreamRecords[i])
              /\ UpstreamRecords[i].gameVersionTypeID \notin DOMAIN VersionTypeMap )
            => KeptAsUnknown(i)

\* no later record with the required fields has the name of record i
LastOfItsName(i) ==
    /\ HasRequiredFields(UpstreamRecords[i])
    /\ \A j \in 1..Len(UpstreamRecords) :
           (j > i /\ HasRequiredFields(UpstreamRecords[j]))
           => UpstreamRecords[j].name # UpstreamRecords[i].name

\* C14 as amended: in the document a run writes, the last record of each name
\* is kept, tagged "unknown" when its type id is not in the catalog; records
\* without a required field, and earlier records of a name that comes again,
\* are dropped.
C14_LastOfNameKept ==
    (game.pc = "exited" /\ game.exitCode = 0 /\ game.writes = 1) =>
        /\ \A i \in 1..Len(UpstreamRecords) :
               ( /\ LastOfItsName(i)
                 /\ UpstreamRecords[i].gameVersionTypeID \notin DOMAIN VersionTypeMap )
               => KeptAsUnknown(i)
        /\ Len(Releases) = Cardinality({i \in 1..Len(UpstreamRecords) : LastOfItsName(i)})

\* three records arrived, one of a type that is not in the catalog
C14_Witness ==
    /\ game.pc = "exited"
    /\ game.exitCode = 0
    /\ game.writes = 1
    /\ Len(UpstreamRecords) = 3
    /\ UpstreamRecords[3].gameVersionTypeID = 999
    /\ Len(Releases) = 3
    /\ KeptAsUnknown(3)

\* the names of group g that the parser accepts
ParsableNames(g) ==
    {g.versions[i] : i \in {j \in 1..Len(g.versions) :
                                g.versions[j] \notin Nullish
                                /\ parseInterfaceVersion(g.versions[j]) # NULL}}

\* the version groups of the answer that have a versions array, by whether
\* their type is in the catalog
GroupsOfType(known) ==
    {i \in 1..Len(addon.versionGroups) :
        /\ "versions" \in DOMAIN addon.versionGroups[i]
        /\ "type" \in DOMAIN addon.versionGroups[i]
        /\ (addon.versionGroups[i].type \in DOMAIN VersionTypeMap) = known}

WrittenVersions == versionsFile.data.versions

\* C15 as claimed: a version name of a group whose type id is not in the
\* catalog is in the output, tagged "unknown".
C15_UnknownTypeRetained ==
    (addon.pc = "exited" /\ addon.exitCode = 0) =>
        \A i \in GroupsOfType(FALSE) :
            \A name \in ParsableNames(addon.versionGroups[i]) :
                \E k \in 1..Len(WrittenVersions) :
                    /\ WrittenVersions[k].name = name
                    /\ WrittenVersions[k].variant = "unknown"

\* C15 as amended: the names of a group whose type id is not in the catalog
\* are left out; every version in the output stems from a group of a known
\* type and carries that type's variant.
C15_UnknownTypeDropped ==
    (addon.pc = "exited" /\ addon.exitCode = 0) =>
        /\ \A k \in 1..Len(WrittenVersions) :
               /\ WrittenVersions[k].variant # "unknown"
               /\ \E i \in GroupsOfType(TRUE) :
                      /\ WrittenVersions[k].name \in ParsableNames(addon.versionGroups[i])
                      /\ WrittenVersions[k].gameVersionTypeId = addon.versionGroups[i].type
                      /\ WrittenVersions[k].variant
                             = VersionTypeMap[addon.versionGroups[i].type].variant
        /\ \A i \in GroupsOfType(FALSE) :
               \A name \in ParsableNames(addon.versionGroups[i]) :
                   \A k \in 1..Len(WrittenVersions) :
                       ~( /\ WrittenVersions[k].name = name
                          /\ WrittenVersions[k].gameVersionTypeId = addon.versionGroups[i].type )

\* "9.9.9" came in a group of type 999 and is not in the output
C15_Witness ==
    /\ addon.pc = "exited"
    /\ addon.exitCode = 0
    /\ Len(addon.versionGroups) = 2
    /\ addon.versionGroups[1].type = 999
    /\ addon.versionGroups[1].versions = <<S(9, 9, 9)>>
    /\ Len(WrittenVersions) = 1
    /\ WrittenVersions[1].name = S(1, 15, 3)

\* C16: when the answer holds no usable record, the game-version-id run ends
\* with exit code 1 and has neither read nor written game-versions.json.
C16_EmptyResultGuard ==
    ( /\ game.pc = "exited"
      /\ game.calls = 1
      /\ game.error # "UpstreamError"
      /\ \A i \in 1..Len(UpstreamRecords) : ~HasRequiredFields(UpstreamRecords[i]) ) =>
        /\ game.exitCode = 1
        /\ game.reads = 0
        /\ game.writes = 0
        /\ gameVersionsFile = game.artifactBefore

\* the only record lacks its id, and an earlier run had written the file
C16_Witness ==
    /\ game.pc = "exited"
    /\ game.exitCode = 1
    /\ game.calls = 1
    /\ Len(UpstreamRecords) = 1
    /\ "id" \notin DOMAIN UpstreamRecords[1]
    /\ gameVersionsFile.state = "json"
    /\ Len(gameVersionsFile.data.releases) = 2

\* the fetch returned and no version survived parsing
AddonEmptyRunDone ==
    /\ addon.pc = "exited"
    /\ addon.calls = 1
    /\ addon.error \notin {"UpstreamError", "TypeError"}
    /\ addon.parsed = <<>>

\* C17 as claimed: with zero versions the addon-versions run ends with exit
\* code 1 and leaves versions.json as it was.
C17_EmptyResultGuard ==
    AddonEmptyRunDone =>
        /\ addon.exitCode = 1
        /\ addon.writes = 0
        /\ versionsFile = addon.artifactBefore

\* C17 as amended: with zero versions the run succeeds and writes a document
\* with an empty versions array over what was there, with the old timestamp
\* when the old versions array was empty too and a fresh one otherwise.
C17_EmptyResultWritten ==
    AddonEmptyRunDone =>
        /\ addon.exitCode = 0
        /\ addon.writes = 1
        /\ versionsFile.state = "json"
        /\ versionsFile.data.versions = <<>>
        /\ IF addon.artifactBefore.state = "json"
              /\ addon.artifactBefore.data.versions = <<>>
           THEN versionsFile.data.lastUpdated = addon.artifactBefore.data.lastUpdated
           ELSE versionsFile.data.lastUpdated >= addon.startedAt

\* a document with two versions was replaced by one with none
C17_Witness ==
    /\ AddonEmptyRunDone
    /\ addon.artifactBefore.state = "json"
    /\ Len(addon.artifactBefore.data.versions) = 2
    /\ versionsFile.state = "json"
    /\ versionsFile.data.versions = <<>>
    /\ versionsFile.data.lastUpdated > addon.artifactBefore.data.lastUpdated

\* C18: without an API key the run ends with exit code 1 before any network
\* call and before the artifact is read or written; in both pipelines.
C18_MissingKeyFirst ==
    /\ (addon.pc = "exited" /\ ~addon.apiKey) =>
           /\ addon.exitCode = 1
           /\ addon.calls = 0
           /\ addon.reads = 0
           /\ addon.writes = 0
           /\ versionsFile = addon.artifactBefore
    /\ (game.pc = "exited" /\ ~game.apiKey) =>
           /\ game.exitCode = 1
           /\ game.calls = 0
           /\ game.reads = 0
           /\ game.writes = 0
           /\ gameVersionsFile = game.artifactBefore

\* a run without a key, after an earlier run had written game-versions.json
C18_Witness ==
    /\ game.pc = "exited"
    /\ ~game.apiKey
    /\ game.exitCode = 1
    /\ gameVersionsFile.state = "json"
    /\ gameVersionsFile.data.lastUpdated < game.startedAt

\* C19: with the previous artifact missing or not JSON, the read yields no
\* document, the change detector reports a change, and the run writes a full
\* new document with a fresh lastUpdated and succeeds; in both pipelines.
C19_StaleReadRewrites ==
    /\ (addon.pc = "exited" /\ addon.reads = 1 /\ addon.artifactBefore.state # "json") =>
           /\ addon.existingData = NoData
           /\ hasVersionsChanged(addon.existingData, addon.output)
           /\ addon.exitCode = 0
           /\ addon.writes = 1
           /\ versionsFile.state = "json"
           /\ versionsFile.data = addon.output
           /\ versionsFile.data.versions = addon.parsed
           /\ versionsFile.data.lastUpdated >= addon.startedAt
           /\ versionsFile.data.lastUpdated <= clock
    /\ (game.pc = "exited" /\ game.reads = 1 /\ game.artifactBefore.state # "json") =>
           /\ game.existingData = NoData
           /\ hasGameVersionsChanged(game.existingData, game.gameVersions)
           /\ game.exitCode = 0
           /\ game.writes = 1
           /\ gameVersionsFile.state = "json"
           /\ gameVersionsFile.data = game.datasource
           /\ Len(gameVersionsFile.data.releases) = Len(game.gameVersions)
           /\ gameVersionsFile.data.lastUpdated >= game.startedAt
           /\ gameVersionsFile.data.lastUpdated <= clock

\* versions.json was not JSON when the run started, later than the clock's start
C19_Witness ==
    /\ addon.pc = "exited"
    /\ addon.reads = 1
    /\ addon.artifactBefore = CorruptFile
    /\ addon.startedAt > 0
    /\ Len(addon.parsed) = 2
    /\ versionsFile.state = "json"
    /\ versionsFile.data.lastUpdated >= addon.startedAt

\* C20: the VersionParser never raises, whatever the records are, so no run
\* of the addon-versions pipeline ends with an error it raised.
C20_ParserNeverRaises ==
    addon.pc = "exited" => addon.error # "TypeError"

-----------------------------------------------------------------------------
(* Claims about the injectivity of parseInterfaceVersion.                  *)

\* the triple read back from an interface version: the last two digits are the
\* patch, the two before them the minor, whatever precedes them the major
InterfaceTriple(iv) ==
    << DigitsToNum(SubSeq(iv, 1, Len(iv) - 4)),
       DigitsToNum(SubSeq(iv, Len(iv) - 3, Len(iv) - 2)),
       DigitsToNum(SubSeq(iv, Len(iv) - 1, Len(iv))) >>

\* the three components of the input are at most two digits long
IsCanonicalVersion ==
    IsPlainVersion /\ \A k \in 1..3 : origin.parts[k] <= 99

\* C30: parseInterfaceVersion is injective on canonical versions (components in
\* 0..99, no leading zeros): the triple can be read back from the interface
\* version, so two distinct triples never yield the same interface version.
C30_Injective ==
    (parserPc = "done" /\ IsCanonicalVersion) =>
        /\ Len(interfaceVersion) >= 5
        /\ InterfaceTriple(interfaceVersion) = origin.parts

\* a two-digit major followed by one-digit minor and patch
C30_Witness ==
    /\ parserPc = "done"
    /\ IsCanonicalVersion
    /\ origin.parts = <<10, 1, 5>>
    /\ interfaceVersion = <<"1", "0", "0", "1", "0", "5">>

-----------------------------------------------------------------------------
(* Claims about the grouping of processVersionsByVariant.                  *)

\* the variant property of the i-th parsed entry
VariantOfEntry(i) == parsedVersions[i].variant

\* f places the entries of the bucket of variant v at their positions in the
\* input: one input position per bucket position, the same entry there, every
\* input entry of the variant taken, and entries of equal sort key in input order
IsStablePlacement(f, v) ==
    LET bucket == versionsByVariant[v] IN
    /\ \A p \in 1..Len(bucket) :
           /\ parsedVersions[f[p]] = bucket[p]
           /\ VariantOfEntry(f[p]) = v
    /\ \A p \in 1..Len(bucket), q \in 1..Len(bucket) :
           /\ p # q => f[p] # f[q]
           /\ (p < q /\ BucketKey(v, p) = BucketKey(v, q)) => f[p] < f[q]
    /\ \A i \in 1..Len(parsedVersions) :
           VariantOfEntry(i) = v => \E p \in 1..Len(bucket) : f[p] = i

\* C26: grouping by variant is a stable partition: the buckets are named by the
\* variants that occur, none is empty, each bucket holds exactly the input
\* entries of its variant (nothing lost, nothing duplicated), and entries of
\* equal sort key keep their input order inside their bucket.
C26_StablePartition ==
    transformPc = "grouped" =>
        /\ DOMAIN versionsByVariant = {VariantOfEntry(i) : i \in 1..Len(parsedVersions)}
        /\ \A v \in DOMAIN versionsByVariant :
               /\ versionsByVariant[v] # <<>>
               /\ \E f \in [1..Len(versionsByVariant[v]) -> 1..Len(parsedVersions)] :
                      IsStablePlacement(f, v)

\* two buckets, one of them with two distinct entries of equal sort key that
\* were first and third in the input
C26_Witness ==
    /\ transformPc = "grouped"
    /\ Len(parsedVersions) = 3
    /\ DOMAIN versionsByVariant = {"classic_era", "retail"}
    /\ Len(versionsByVariant["classic_era"]) = 2
    /\ versionsByVariant["classic_era"][1] # versionsByVariant["classic_era"][2]
    /\ BucketKey("classic_era", 1) = BucketKey("classic_era", 2)
    /\ versionsByVariant["classic_era"][1] = parsedVersions[1]
    /\ versionsByVariant["classic_era"][2] = parsedVersions[3]

-----------------------------------------------------------------------------
(* Claims about the release timestamps of game-versions.json.              *)

\* the positions in the releases of the bucket that position k belongs to
BucketOf(k) == {j \in 1..Len(Releases) : Releases[j].variant = Releases[k].variant}

\* the 0-based position of release k inside its bucket
PositionInBucket(k) == Cardinality({j \in BucketOf(k) : j < k})

\* the instant the document was written at
WrittenAt == gameVersionsFile.data.lastUpdated

-----------------------------------------------------------------------------
(* Claims about the number of releases of game-versions.json.              *)

\* the positions of the upstream records that have name, id and type id
UsableRecords == {i \in 1..Len(UpstreamRecords) : HasRequiredFields(UpstreamRecords[i])}

\* some release has the id of record i, in decimal, as its version
HasReleaseOfId(i) ==
    \E k \in 1..Len(Releases) : Releases[k].version = ToStr(UpstreamRecords[i].id)

\* C23 as claimed: the written document has one release per usable upstream
\* record, and the id of each usable record is the version of some release,
\* also when several records share a name.
C23_OneReleasePerRecord ==
    (game.pc = "exited" /\ game.exitCode = 0 /\ game.writes = 1) =>
        /\ Len(Releases) = Cardinality(UsableRecords)
        /\ \A i \in UsableRecords : HasReleaseOfId(i)

\* C23 as amended: the written document has one release per distinct name of
\* the usable upstream records, and that release carries the name and the id
\* of the last usable record of the name.
C23_OneReleasePerName ==
    (game.pc = "exited" /\ game.exitCode = 0 /\ game.writes = 1) =>
        /\ Len(Releases) = Cardinality({UpstreamRecords[i].name : i \in UsableRecords})
        /\ \A i \in UsableRecords :
               LastOfItsName(i) =>
                   \E k \in 1..Len(Releases) :
                       /\ Releases[k].version = ToStr(UpstreamRecords[i].id)
                       /\ Releases[k].originalVersion = UpstreamRecords[i].name
        /\ \A k \in 1..Len(Releases), l \in 1..Len(Releases) :
               k # l => Releases[k].originalVersion # Releases[l].originalVersion

\* three usable records, two of one name with different ids: two releases,
\* none with the id of the first record
C23_Witness ==
    /\ game.pc = "exited" /\ game.exitCode = 0 /\ game.writes = 1
    /\ Len(UpstreamRecords) = 3
    /\ UsableRecords = {1, 2, 3}
    /\ UpstreamRecords[1].name = UpstreamRecords[3].name
    /\ UpstreamRecords[1].name # UpstreamRecords[2].name
    /\ UpstreamRecords[1].id = 1
    /\ UpstreamRecords[2].id = 2
    /\ UpstreamRecords[3].id = 2
    /\ Len(Releases) = 2
    /\ ~HasReleaseOfId(1)

-----------------------------------------------------------------------------
(* Claims about a second run of the game pipeline on the same upstream data. *)

\* the document a run writes at the instant now from the upstream data of
\* the run at hand
WrittenFromSameData(now) ==
    Datasource(processGameVersionData(game.gameVersionData, VersionTypeMap), now)

\* the run at hand found the document that a run on identical upstream data
\* had written
FoundOwnDocument ==
    /\ game.artifactBefore.state = "json"
    /\ game.artifactBefore.data = WrittenFromSameData(game.artifactBefore.data.lastUpdated)

\* the ids of the usable upstream records are pairwise distinct
DistinctIds ==
    \A i \in UsableRecords, j \in UsableRecords :
        i # j => UpstreamRecords[i].id # UpstreamRecords[j].id

\* C24: a run that finds the document a run on identical upstream data wrote
\* detects no change and writes nothing, also when two records with
\* different names share an id.
C24_SecondRunWritesNothing ==
    (game.pc = "exited" /\ game.exitCode = 0 /\ FoundOwnDocument) => game.writes = 0

\* the same for upstream data whose usable records have pairwise distinct ids
C24_SecondRunWritesNothingDistinctIds ==
    (game.pc = "exited" /\ game.exitCode = 0 /\ FoundOwnDocument /\ DistinctIds) =>
        game.writes = 0

\* a second run on identical data with distinct ids that wrote nothing
C24_Witness ==
    /\ game.pc = "exited" /\ game.exitCode = 0
    /\ FoundOwnDocument
    /\ DistinctIds
    /\ Len(UpstreamRecords) = 2
    /\ game.writes = 0

-----------------------------------------------------------------------------
(* Claims about the versions array of versions.json.                       *)

\* the places <<group, index>> of the answer whose version name ends up in
\* the output: the group has a type of the catalog, the name parses
UpstreamPlaces ==
    {pl \in (1..Len(addon.versionGroups)) \X (1..MaxRecords + 1) :
        /\ pl[1] \in GroupsOfType(TRUE)
        /\ pl[2] <= Len(addon.versionGroups[pl[1]].versions)
        /\ addon.versionGroups[pl[1]].versions[pl[2]]
               \in ParsableNames(addon.versionGroups[pl[1]])}

\* the 1-based rank of a place in upstream order: group by group, index by index
RankOfPlace(pl) ==
    1 + Cardinality({other \in UpstreamPlaces :
                        \/ other[1] < pl[1]
                        \/ other[1] = pl[1] /\ other[2] < pl[2]})

\* the positions of the versions array whose entry has the variant
WrittenOfVariant(v) == {k \in 1..Len(WrittenVersions) : WrittenVersions[k].variant = v}

\* C27: the versions array of the written document is the parsed entries in
\* upstream order (group by group, name by name); only the buckets of
\* versionsByVariant are reordered, each holding the entries of the versions
\* array that have its variant.
C27_VersionsInUpstreamOrder ==
    (addon.pc = "exited" /\ addon.exitCode = 0 /\ addon.writes = 1) =>
        /\ Len(WrittenVersions) = Cardinality(UpstreamPlaces)
        /\ \A pl \in UpstreamPlaces :
               /\ WrittenVersions[RankOfPlace(pl)].name
                      = addon.versionGroups[pl[1]].versions[pl[2]]
               /\ WrittenVersions[RankOfPlace(pl)].gameVersionTypeId
                      = addon.versionGroups[pl[1]].type
        /\ \A v \in DOMAIN versionsFile.data.versionsByVariant :
               LET bucket == versionsFile.data.versionsByVariant[v] IN
               /\ Len(bucket) = Cardinality(WrittenOfVariant(v))
               /\ \A k \in WrittenOfVariant(v) :
                      \E p \in 1..Len(bucket) : bucket[p] = WrittenVersions[k]

\* upstream sent 1.15.3 before 1.15.4: the bucket has them newest first, the
\* versions array as sent
C27_Witness ==
    /\ addon.pc = "exited" /\ addon.exitCode = 0 /\ addon.writes = 1
    /\ Len(WrittenVersions) = 2
    /\ WrittenVersions[1].name = S(1, 15, 3)
    /\ WrittenVersions[2].name = S(1, 15, 4)
    /\ versionsFile.data.versionsByVariant["classic_era"][1] = WrittenVersions[2]
    /\ versionsFile.data.versionsByVariant["classic_era"][2] = WrittenVersions[1]

-----------------------------------------------------------------------------
(* Claims about lastUpdated over a sequence of runs.                       *)

-----------------------------------------------------------------------------
(* hasVersionsChanged applied to one previous and one candidate document.  *)

\* the lists of parsed versions that the answers of the endpoint lead to
ParsedLists ==
    {parseVersions(getAllWowVersions(r)) :
        r \in {g \in VersionGroupResponses : ~parseVersionsThrows(getAllWowVersions(g))}}

\* documents as createOutputObject builds them, the versions array and the
\* other fields varying independently of each other
CandidateDocuments ==
    {createOutputObject(versions, processVersionsByVariant(grouped), getVersionTypes, now) :
        versions \in ParsedLists, grouped \in ParsedLists, now \in {0, MaxClock}}

\* what readExistingVersions can return: null, a document without a versions
\* array, a document of an earlier run
PreviousDocuments == {NoData, [lastUpdated |-> 0]} \cup CandidateDocuments

VersionsChangedInit ==
    /\ detector \in [pc : {"ready"}, oldData : PreviousDocuments,
                      newData : CandidateDocuments, changed : {FALSE}]
    /\ rival = [pc |-> "off"]
    /\ clock = 0
    /\ ParserOff
    /\ TransformOff
    /\ AddonOff
    /\ GameOff

HasVersionsChanged ==
    /\ detector.pc = "ready"
    /\ detector' = [detector EXCEPT
                        !.pc = "done",
                        !.changed = hasVersionsChanged(detector.oldData, detector.newData)]
    /\ UNCHANGED <<parserVars, transformVars, clock, addonVars, gameVars, rival>>

VersionsChangedNext == HasVersionsChanged

SpecVersionsChanged == VersionsChangedInit /\ [][VersionsChangedNext]_vars

-----------------------------------------------------------------------------
(* hasGameVersionsChanged applied to one previous document and one mapping. *)

MaxChangeRecords == 2

\* upstream records: ids that are array indices as property keys and ids that
\* are not, a name with two ids, an id with two names, a name and id of two types
ChangeRecords ==
    { GameRecord(S(1, 0, 0), 1, 517), GameRecord(S(2, 0, 0), 2, 517),
      GameRecord(S(1, 0, 0), -1, 517), GameRecord(S(2, 0, 0), -2, 517),
      GameRecord(S(2, 0, 0), 1, 67408), GameRecord(S(1, 0, 0), 1, 67408) }

\* the release that saveGameVersionsToFile writes for a record
ReleaseOfRecord(record) ==
    [version |-> ToStr(record.id),
     originalVersion |-> record.name,
     variant |-> VariantOfType(VersionTypeMap, record.gameVersionTypeID),
     releaseTimestamp |-> 0]

\* what readExistingGameVersions can return: null, a document without
\* releases, a document with the releases of some records in some order
PreviousGameDocuments ==
    {NoData, [lastUpdated |-> 0]}
    \cup {[lastUpdated |-> 0,
           releases |-> [i \in 1..Len(items) |-> ReleaseOfRecord(items[i])]] :
             items \in SeqsUpTo(ChangeRecords, MaxChangeRecords)}

\* the mappings processGameVersionData can return
GameVersionMappings ==
    {processGameVersionData(ArrayResponse(items), VersionTypeMap) :
        items \in SeqsUpTo(ChangeRecords, MaxChangeRecords)}

GameVersionsChangedInit ==
    /\ detector \in [pc : {"ready"}, oldData : PreviousGameDocuments,
                      newData : GameVersionMappings, changed : {FALSE}]
    /\ rival = [pc |-> "off"]
    /\ clock = 0
    /\ ParserOff
    /\ TransformOff
    /\ AddonOff
    /\ GameOff

HasGameVersionsChanged ==
    /\ detector.pc = "ready"
    /\ detector' = [detector EXCEPT
                        !.pc = "done",
                        !.changed = hasGameVersionsChanged(detector.oldData, detector.newData)]
    /\ UNCHANGED <<parserVars, transformVars, clock, addonVars, gameVars, rival>>

GameVersionsChangedNext == HasGameVersionsChanged

SpecGameVersionsChanged == GameVersionsChangedInit /\ [][GameVersionsChangedNext]_vars

-----------------------------------------------------------------------------
(* Claims about the change detectors.                                      *)

\* C21: hasVersionsChanged returns true exactly when there is no previous
\* document or the versions arrays differ as sequences of records; the same
\* versions in another order are a change, and lastUpdated, versionsByVariant,
\* versionTypes and summary play no part.
C21_ChangedIffVersionsDiffer ==
    detector.pc = "done" =>
        detector.changed =
            ( \/ detector.oldData = NoData
              \/ "versions" \notin DOMAIN detector.oldData
              \/ detector.oldData.versions # detector.newData.versions )

\* the same two versions in the other order, the other fields equal: a change
C21_Witness ==
    /\ detector.pc = "done"
    /\ detector.oldData \in CandidateDocuments
    /\ Len(detector.oldData.versions) = 2
    /\ Len(detector.newData.versions) = 2
    /\ detector.oldData.versions[1] = detector.newData.versions[2]
    /\ detector.oldData.versions[2] = detector.newData.versions[1]
    /\ detector.oldData.versions[1] # detector.oldData.versions[2]
    /\ detector.oldData.lastUpdated = detector.newData.lastUpdated
    /\ detector.oldData.versionsByVariant = detector.newData.versionsByVariant
    /\ detector.changed

\* the releases of the previous document, and the entries of the mapping
OldReleases ==
    IF detector.oldData # NoData /\ "releases" \in DOMAIN detector.oldData
    THEN detector.oldData.releases ELSE <<>>

NewEntries == detector.newData

\* the (id, originalVersion, variant) triples of each side, the id in decimal
OldTriples ==
    {<<OldReleases[i].version, OldReleases[i].originalVersion, OldReleases[i].variant>> :
        i \in 1..Len(OldReleases)}

NewTriples ==
    {<<ToStr(NewEntries[i][2].id), NewEntries[i][1], NewEntries[i][2].variant>> :
        i \in 1..Len(NewEntries)}

\* on each side the ids are pairwise distinct and the names are pairwise distinct
DistinctIdsAndNames ==
    /\ \A i \in 1..Len(OldReleases), j \in 1..Len(OldReleases) :
           i # j => /\ OldReleases[i].version # OldReleases[j].version
                    /\ OldReleases[i].originalVersion # OldReleases[j].originalVersion
    /\ \A i \in 1..Len(NewEntries), j \in 1..Len(NewEntries) :
           i # j => /\ NewEntries[i][2].id # NewEntries[j][2].id
                    /\ NewEntries[i][1] # NewEntries[j][1]

\* no id is negative
NoNegativeId ==
    /\ \A i \in 1..Len(OldReleases) : OldReleases[i].version[1] # "-"
    /\ \A i \in 1..Len(NewEntries) : NewEntries[i][2].id >= 0

\* there is a previous document and it has releases
HasPreviousReleases ==
    detector.oldData # NoData /\ "releases" \in DOMAIN detector.oldData

-----------------------------------------------------------------------------
(* Two addon-versions processes on the same versions.json: nothing keeps   *)
(* the scheduler from starting a run while another one is under way.  The  *)
(* second process runs the code of the first.                              *)

\* what the versions endpoint answers before and after a version came out
OverlapResponses ==
    { <<[type |-> 67408, versions |-> <<S(1, 15, 3)>>]>>,
      <<[type |-> 67408, versions |-> <<S(1, 15, 3), S(1, 15, 4)>>]>> }

OverlapInit ==
    /\ clock = 0
    /\ versionsFile \in {MissingFile, CorruptFile}
    /\ addon = AddonFresh("idle")
    /\ rival = AddonFresh("idle")
    /\ detector = [pc |-> "off"]
    /\ ParserOff
    /\ TransformOff
    /\ GameOff

\* the scheduler starts the second process; validateApiKey exits 1 without a key
RivalStart(hasKey) ==
    /\ rival.pc = "idle"
    /\ rival' = IF hasKey
                THEN [AddonFresh("fetching") EXCEPT !.startedAt = clock,
                                                     !.artifactBefore = versionsFile]
                ELSE [AddonFresh("exited") EXCEPT !.exitCode = 1,
                                                   !.error = "MissingApiKey",
                                                   !.apiKey = FALSE,
                                                   !.startedAt = clock,
                                                   !.artifactBefore = versionsFile]
    /\ UNCHANGED <<detector, parserVars, transformVars, clock, addonVars, gameVars>>

RivalFetchFails ==
    /\ rival.pc = "fetching"
    /\ rival' = [rival EXCEPT !.pc = "exited", !.exitCode = 1,
                              !.error = "UpstreamError", !.calls = @ + 1]
    /\ UNCHANGED <<detector, parserVars, transformVars, clock, addonVars, gameVars>>

RivalFetched(versionGroups) ==
    /\ rival.pc = "fetching"
    /\ LET wowVersions == getAllWowVersions(versionGroups)
           parsed == parseVersions(wowVersions)
       IN  rival' = IF parseVersionsThrows(wowVersions)
                    THEN [rival EXCEPT !.pc = "exited", !.exitCode = 1,
                                       !.error = "TypeError", !.calls = @ + 1,
                                       !.versionGroups = versionGroups]
                    ELSE [rival EXCEPT !.pc = "reading",
                                       !.calls = @ + 1,
                                       !.versionGroups = versionGroups,
                                       !.parsed = parsed,
                                       !.byVariant = processVersionsByVariant(parsed)]
    /\ UNCHANGED <<detector, parserVars, transformVars, clock, addonVars, gameVars>>

RivalRead ==
    /\ rival.pc = "reading"
    /\ LET existingData == readExistingVersions(versionsFile)
           output == createOutputObject(rival.parsed, rival.byVariant, getVersionTypes, clock)
       IN  rival' = [rival EXCEPT !.pc = "writing",
                                  !.reads = @ + 1,
                                  !.existingData = existingData,
                                  !.output = KeepTimestampIfUnchanged(existingData, output)]
    /\ UNCHANGED <<detector, parserVars, transformVars, clock, addonVars, gameVars>>

RivalWrite ==
    /\ rival.pc = "writing"
    /\ versionsFile' = JsonFile(rival.output)
    /\ rival' = [rival EXCEPT !.pc = "exited", !.exitCode = 0, !.writes = @ + 1]
    /\ UNCHANGED <<detector, parserVars, transformVars, clock, addon, gameVars>>

\* each process makes one run
OverlapNext ==
    \/ Tick
    \/ addon.pc = "idle" /\ \E hasKey \in BOOLEAN : AddonStart(hasKey)
    \/ AddonFetchFails
    \/ \E versionGroups \in OverlapResponses : AddonFetched(versionGroups)
    \/ AddonRead
    \/ AddonWrite
    \/ \E hasKey \in BOOLEAN : RivalStart(hasKey)
    \/ RivalFetchFails
    \/ \E versionGroups \in OverlapResponses : RivalFetched(versionGroups)
    \/ RivalRead
    \/ RivalWrite

SpecOverlap == OverlapInit /\ [][OverlapNext]_vars

-----------------------------------------------------------------------------
(* Claims about overlapping runs.                                          *)

\* the process is about to write and versions.json is no longer what it read
StaleWriter(process) ==
    process.pc = "writing" /\ readExistingVersions(versionsFile) # process.existingData

\* the step replaces the document by one with an earlier lastUpdated
LastUpdatedGoesBack ==
    /\ versionsFile.state = "json"
    /\ versionsFile'.state = "json"
    /\ versionsFile'.data.lastUpdated < versionsFile.data.lastUpdated

\* C29: two runs on the same versions.json may interleave so that the
\* document that stays has an earlier lastUpdated, and fewer versions, than
\* one that was persisted before it; this takes a run that writes after the
\* other run wrote what it had not read: a write by a run that read what is
\* in the file, as every write of serialized runs is, never sets lastUpdated back.
C29_OnlyStaleWriteGoesBack ==
    [][ LastUpdatedGoesBack =>
          \/ addon' # addon /\ StaleWriter(addon)
          \/ rival' # rival /\ StaleWriter(rival) ]_vars

\* both runs read before either wrote; the second process wrote 1.15.3 and
\* 1.15.4 with a later lastUpdated, then the first one overwrote it with 1.15.3
\* and its earlier lastUpdated
C29_Witness ==
    /\ addon.pc = "exited" /\ addon.writes = 1
    /\ rival.pc = "exited" /\ rival.writes = 1
    /\ addon.existingData = NoData
    /\ rival.existingData = NoData
    /\ versionsFile = JsonFile(addon.output)
    /\ rival.output.lastUpdated > versionsFile.data.lastUpdated
    /\ Len(rival.output.versions) = 2
    /\ Len(versionsFile.data.versions) = 1

====
